---- MODULE Spec2Model ----
(***************************************************************************)
(* Model of archi-comatrix: the upward traversal of aggregation and        *)
(* composition relationships that resolves the groupings of an element      *)
(* (src/src/main/model.js), the run that extracts the interface            *)
(* relationships, builds, merges and classifies two connectivity matrices   *)
(* (src/src/main/comatrix.js, src/src/main/comatrix-bundled.js) and the    *)
(* run that collects and sorts the application catalog                      *)
(* (src/src/main/applist.js).                                               *)
(***************************************************************************)
EXTENDS Naturals, Integers, Sequences, FiniteSets, TLC

VARIABLES
  \* ---- the Archi model the traversal reads --------------------------------
  profile,       \* name and specialization of every element
  containment,   \* set of aggregation / composition relationships
  \* ---- one findDomain / findFachbereich call -------------------------------
  pc,            \* "idle" | "call" | "loop" | "return" | "done" | "listed"
  target,        \* targetSpecialization of the running call
  startElement,  \* the element findDomain / findFachbereich was called with
  callArg,       \* the element of the findAllGroupings call being entered
  stack,         \* active findAllGroupings frames, innermost last
  visited,       \* the Set `visited`
  currentPath,   \* the Set `currentPath`
  ret,           \* the result object returned by the call that just ended
  rendered,      \* the string findDomain / findFachbereich returned
  catalogCell,   \* the cell the application list shows for that string
  \* ---- one runComatrix run ---------------------------------------------------
  baselineModel,    \* triggering relationships of the baseline model
  model,            \* triggering relationships of the selected model
  runPc,            \* position of runComatrix
  compareMode,      \* the flag compareMode
  heap,             \* the Set objects of the tables: identity -> members
  comatrixBase,     \* buildComatrix(baselineModel)
  comatrixCurrent,  \* buildComatrix(model)
  comatrix,         \* the table handed to output2Excel
  report,           \* the classification output2Excel derives
  failure,          \* what was thrown during the run, "none" if nothing
  writerCalls,      \* how often the run has called output2Excel
  domainCalls,      \* the nodes the latest extractElements call has handed
                    \* to findDomain, in the order of the calls
  \* ---- one runAppList run ----------------------------------------------------
  applications,     \* the array `applications`
  listPc,           \* position of runAppList
  \* ---- one call of the findDomain of comatrix-bundled.js ---------------------
  domainProp,       \* the elements whose property "Domäne" has a value
  legacyPc,         \* "idle" | "call" | "loop" | "return" | "done" | "overflow"
  legacyArg,        \* the element of the findDomain call being entered
  legacyStack,      \* active findDomain frames, innermost last
  legacyRet         \* the string returned by the call that just ended

resolveVars == <<profile, containment, pc, target, startElement, callArg,
                 stack, visited, currentPath, ret, rendered, catalogCell>>

runVars == <<baselineModel, model, runPc, compareMode, heap, comatrixBase,
             comatrixCurrent, comatrix, report, failure, writerCalls,
             domainCalls>>

listVars == <<applications, listPc>>

legacyVars == <<domainProp, legacyPc, legacyArg, legacyStack, legacyRet>>

vars == <<resolveVars, runVars, listVars, legacyVars>>

----------------------------------------------------------------------------
(* Bounds and input universes                                              *)

MaxEdges == 3

Elements == {"e1", "e2", "e3"}

\* the order in which the host model stores (and returns) the elements
ElementOrder == <<"e1", "e2", "e3">>

RelTypes == {"aggregation-relationship", "composition-relationship"}

Edge(p, c, t) == [parent |-> p, child |-> c, type |-> t]


\* the attribute assignments the element universe is drawn from
Profiles ==
  { [name           |-> [e1 |-> "Order System", e2 |-> "Sales", e3 |-> "Finance"],
     specialization |-> [e1 |-> "Geschäftsanwendung", e2 |-> "Domäne", e3 |-> "Domäne"]],
    [name           |-> [e1 |-> "Sales", e2 |-> "Sales", e3 |-> "Vertrieb"],
     specialization |-> [e1 |-> "Domäne", e2 |-> "Domäne", e3 |-> "Fachbereich"]] }

NoResult == [found |-> <<>>, hasCycle |-> FALSE]

----------------------------------------------------------------------------
(* Helpers                                                                  *)

SeqToSet(s) == {s[k] : k \in 1..Len(s)}

Contains(s, x) == \E k \in 1..Len(s) : s[k] = x

\* Array.prototype.join
RECURSIVE Join(_, _)
Join(s, sep) ==
  IF s = <<>> THEN ""
  ELSE IF Len(s) = 1 THEN s[1]
  ELSE s[1] \o sep \o Join(Tail(s), sep)

----------------------------------------------------------------------------
(* model.js: findAllGroupings                                               *)

\* $(element).inRels("aggregation-relationship")
\*           .add($(element).inRels("composition-relationship"))
\* as the sequence of the relationships' sources
inRels(element, type) ==
  SelectSeq(ElementOrder, LAMBDA p : Edge(p, element, type) \in containment)

incomingRels(element) ==
  inRels(element, "aggregation-relationship")
    \o inRels(element, "composition-relationship")

\* line 18: the cycle test at function entry
onCurrentPath(element, path) == element \in path

\* lines 24-26: the element's own name when it carries the specialization
ownMatch(element, targetSpecialization) ==
  IF profile.specialization[element] = targetSpecialization
  THEN <<profile.name[element]>>
  ELSE <<>>

\* line 43: a parent that is fully processed is skipped
skipParent_NoPathTest(parent, vis, path) == parent \in vis

skipParent(parent, vis, path) == parent \in vis /\ parent \notin path

\* lines 60-64: parentResult.found.forEach(push if not included)
mergeFound_NoDedup(found, parentFound) == found \o parentFound

mergeFound_Prepend(found, parentFound) ==
  SelectSeq(parentFound, LAMBDA n : ~Contains(found, n)) \o found

RECURSIVE mergeFound(_, _)
mergeFound(found, parentFound) ==
  IF parentFound = <<>> THEN found
  ELSE mergeFound(IF Contains(found, Head(parentFound)) THEN found
                  ELSE Append(found, Head(parentFound)),
                  Tail(parentFound))

\* line 68: currentPath.delete(element.id)
pathAfterReturn_NoDelete(element, path) == path

pathAfterReturn(element, path) == path \ {element}

\* lines 83-91 / 104-112: what findDomain / findFachbereich make of the result
renderResult_NamesFirst(result) ==
  IF Len(result.found) > 0 THEN Join(result.found, ", ")
  ELSE IF result.hasCycle THEN "cycle"
  ELSE ""

renderResult(result) ==
  IF result.hasCycle THEN "cycle"
  ELSE IF Len(result.found) = 0 THEN ""
  ELSE Join(result.found, ", ")

\* applist.js lines 168-169: domain || "(keine Domäne)"
catalogValue(value, placeholder) == IF value = "" THEN placeholder ELSE value

Top == stack[Len(stack)]

SetTop(f) == [stack EXCEPT ![Len(stack)] = f]

----------------------------------------------------------------------------
(* Initial state                                                            *)

InitResolve ==
  /\ profile \in Profiles
  /\ containment = {}
  /\ pc = "idle"
  /\ target = ""
  /\ startElement = "e1"
  /\ callArg = "e1"
  /\ stack = <<>>
  /\ visited = {}
  /\ currentPath = {}
  /\ ret = NoResult
  /\ rendered = ""
  /\ catalogCell = ""

----------------------------------------------------------------------------
(* The host model is edited between runs                                    *)

AddRelationship(p, c, t) ==
  /\ pc = "idle"
  /\ legacyPc = "idle"
  /\ Cardinality(containment) < MaxEdges
  /\ Edge(p, c, t) \notin containment
  /\ containment' = containment \cup {Edge(p, c, t)}
  /\ UNCHANGED <<profile, pc, target, startElement, callArg, stack, visited,
                 currentPath, ret, rendered, catalogCell>>
  /\ UNCHANGED <<runVars, listVars, legacyVars>>

----------------------------------------------------------------------------
(* findDomain / findFachbereich, lines 78-81 and 99-102                     *)

StartFind(element, targetSpecialization) ==
  /\ pc = "idle"
  /\ pc' = "call"
  /\ target' = targetSpecialization
  /\ startElement' = element
  /\ callArg' = element
  /\ stack' = <<>>
  /\ visited' = {}
  /\ currentPath' = {}
  /\ ret' = NoResult
  /\ rendered' = ""
  /\ catalogCell' = ""
  /\ UNCHANGED <<profile, containment>>
  /\ UNCHANGED <<runVars, listVars, legacyVars>>

findDomain(element) == StartFind(element, "Domäne")

findFachbereich(element) == StartFind(element, "Fachbereich")

\* lines 15-30: entry of findAllGroupings
EnterCycle ==
  /\ pc = "call"
  /\ onCurrentPath(callArg, currentPath)
  /\ ret' = [found |-> <<>>, hasCycle |-> TRUE]
  /\ pc' = "return"
  /\ UNCHANGED <<profile, containment, target, startElement, callArg, stack,
                 visited, currentPath, rendered, catalogCell>>
  /\ UNCHANGED <<runVars, listVars, legacyVars>>

Enter ==
  /\ pc = "call"
  /\ ~onCurrentPath(callArg, currentPath)
  /\ stack' = Append(stack, [element  |-> callArg,
                             i        |-> 1,
                             found    |-> ownMatch(callArg, target),
                             hasCycle |-> FALSE])
  /\ visited' = visited \cup {callArg}
  /\ currentPath' = currentPath \cup {callArg}
  /\ pc' = "loop"
  /\ UNCHANGED <<profile, containment, target, startElement, callArg, ret,
                 rendered, catalogCell>>
  /\ UNCHANGED <<runVars, listVars, legacyVars>>

\* lines 38-45: the parent is already visited and not on the path
Skip ==
  /\ pc = "loop"
  /\ Top.i <= Len(incomingRels(Top.element))
  /\ skipParent(incomingRels(Top.element)[Top.i], visited, currentPath)
  /\ stack' = SetTop([Top EXCEPT !.i = @ + 1])
  /\ UNCHANGED <<profile, containment, pc, target, startElement, callArg,
                 visited, currentPath, ret, rendered, catalogCell>>
  /\ UNCHANGED <<runVars, listVars, legacyVars>>

\* lines 48-53: the recursive call
Recurse ==
  /\ pc = "loop"
  /\ Top.i <= Len(incomingRels(Top.element))
  /\ ~skipParent(incomingRels(Top.element)[Top.i], visited, currentPath)
  /\ callArg' = incomingRels(Top.element)[Top.i]
  /\ pc' = "call"
  /\ UNCHANGED <<profile, containment, target, startElement, stack, visited,
                 currentPath, ret, rendered, catalogCell>>
  /\ UNCHANGED <<runVars, listVars, legacyVars>>

\* lines 55-64: the caller takes over the parent's result
TakeParentResult ==
  /\ pc = "return"
  /\ stack # <<>>
  /\ stack' = SetTop([Top EXCEPT !.hasCycle = @ \/ ret.hasCycle,
                                 !.found = mergeFound(@, ret.found),
                                 !.i = @ + 1])
  /\ pc' = "loop"
  /\ UNCHANGED <<profile, containment, target, startElement, callArg, visited,
                 currentPath, ret, rendered, catalogCell>>
  /\ UNCHANGED <<runVars, listVars, legacyVars>>

Leave_KeepPathOnCycle ==
  /\ pc = "loop"
  /\ Top.i > Len(incomingRels(Top.element))
  /\ currentPath' = IF Top.hasCycle THEN currentPath
                    ELSE pathAfterReturn(Top.element, currentPath)
  /\ ret' = [found |-> Top.found, hasCycle |-> Top.hasCycle]
  /\ stack' = SubSeq(stack, 1, Len(stack) - 1)
  /\ pc' = "return"
  /\ UNCHANGED <<profile, containment, target, startElement, callArg, visited,
                 rendered, catalogCell>>
  /\ UNCHANGED <<runVars, listVars, legacyVars>>

\* lines 67-70: backtrack and return
Leave ==
  /\ pc = "loop"
  /\ Top.i > Len(incomingRels(Top.element))
  /\ currentPath' = pathAfterReturn(Top.element, currentPath)
  /\ ret' = [found |-> Top.found, hasCycle |-> Top.hasCycle]
  /\ stack' = SubSeq(stack, 1, Len(stack) - 1)
  /\ pc' = "return"
  /\ UNCHANGED <<profile, containment, target, startElement, callArg, visited,
                 rendered, catalogCell>>
  /\ UNCHANGED <<runVars, listVars, legacyVars>>

\* lines 83-91 / 104-112: the top-level call returned
Render ==
  /\ pc = "return"
  /\ stack = <<>>
  /\ rendered' = renderResult(ret)
  /\ pc' = "done"
  /\ UNCHANGED <<profile, containment, target, startElement, callArg, stack,
                 visited, currentPath, ret, catalogCell>>
  /\ UNCHANGED <<runVars, listVars, legacyVars>>

\* applist.js lines 163-170: the application list takes the string over
placeholderFor(targetSpecialization) ==
  IF targetSpecialization = "Domäne" THEN "(keine Domäne)"
  ELSE "(kein Fachbereich)"

appendApplication ==
  /\ pc = "done"
  /\ catalogCell' = catalogValue(rendered, placeholderFor(target))
  /\ pc' = "listed"
  /\ UNCHANGED <<profile, containment, target, startElement, callArg, stack,
                 visited, currentPath, ret, rendered>>
  /\ UNCHANGED <<runVars, listVars, legacyVars>>

\* the call is over; the next one starts from fresh sets
Consume ==
  /\ pc \in {"done", "listed"}
  /\ pc' = "idle"
  /\ target' = ""
  /\ startElement' = "e1"
  /\ callArg' = "e1"
  /\ visited' = {}
  /\ currentPath' = {}
  /\ ret' = NoResult
  /\ rendered' = ""
  /\ catalogCell' = ""
  /\ UNCHANGED <<profile, containment, stack>>
  /\ UNCHANGED <<runVars, listVars, legacyVars>>

----------------------------------------------------------------------------
(* Input universe of a run: the relationship objects extractElements       *)
(* (model.js lines 136-144) pushes, with the resolved domains              *)

MaxRels == 2

Rel(a, aDom, s, b, bDom) ==
  [target |-> a, targetDomain |-> aDom, schnittstelle |-> s,
   source |-> b, sourceDomain |-> bDom]

RelUniverse ==
  { Rel("Order System", "Sales",   "REST", "Portal",    "Sales"),
    Rel("Order System", "Sales",   "REST", "MobileApp", ""),
    Rel("Order System", "Finance", "SOAP", "Portal",    "Finance"),
    Rel("Billing",      "",        "REST", "Portal",    "Sales"),
    Rel("Billing",      "Finance", "",     "MobileApp", "Sales"),
    Rel("Billing",      "",        "REST", "MobileApp", "") }

\* what relationship.prop("Schnittstelle", true) hands back: an array of
\* values, or no value at all
PropArray(values) == [kind |-> "array", values |-> values]

PropNull == [kind |-> "null", values |-> <<>>]

\* a triggering relationship of an Archi model, with the domains findDomain
\* resolves for its two ends
TriggeringRelationship(name, a, aDom, prop, b, bDom) ==
  [name |-> name, target |-> a, targetDomain |-> aDom, prop |-> prop,
   source |-> b, sourceDomain |-> bDom]

\* the relationship extractElements turns into the one record rel
SingleValued(rel) ==
  TriggeringRelationship("NST_Orders", rel.target, rel.targetDomain,
                         PropArray(<<rel.schnittstelle>>), rel.source, rel.sourceDomain)

\* the relationships the baseline model is drawn from
BaselineUniverse ==
  { SingleValued(Rel("Order System", "Sales",   "REST", "Portal",    "Sales")),
    SingleValued(Rel("Order System", "Sales",   "REST", "MobileApp", "")),
    SingleValued(Rel("Billing",      "",        "REST", "Portal",    "Sales")),
    SingleValued(Rel("Billing",      "Finance", "",     "MobileApp", "Sales")) }

\* the selected model also has a relationship whose property has no values,
\* one without the property, one with two values, and three that are not
\* interface relationships: another name, the prefix in lower case, no name
ModelUniverse ==
  {SingleValued(rel) : rel \in RelUniverse} \cup
  { TriggeringRelationship("NST_Orders", "Billing", "Finance", PropArray(<<>>),
                           "Portal", "Sales"),
    TriggeringRelationship("NST_Orders", "Billing", "Finance", PropNull,
                           "Portal", "Sales"),
    TriggeringRelationship("NST_Orders", "Billing", "Finance",
                           PropArray(<<"REST", "SOAP">>), "Portal", "Sales"),
    TriggeringRelationship("Orders", "Order System", "Sales", PropArray(<<"REST">>),
                           "Portal", "Sales"),
    TriggeringRelationship("nst_Orders", "Billing", "Finance", PropArray(<<"SOAP">>),
                           "MobileApp", "Sales"),
    TriggeringRelationship("", "Order System", "Sales", PropArray(<<"SOAP">>),
                           "MobileApp", "") }

EmptyMap == [k \in {} |-> k]

EmptyTable ==
  [aElements |-> EmptyMap, bElementsMap |-> EmptyMap,
   sortedAElements |-> <<>>, sortedBElements |-> <<>>, relationships |-> <<>>]

\* what model.prop("baseline") hands back: a string, or no value
NoProperty == [kind |-> "null"]

StringProperty(value) == [kind |-> "string", value |-> value]

BaselineProperties ==
  { NoProperty, StringProperty(""), StringProperty(" "),
    StringProperty("Baseline"), StringProperty(" Baseline "),
    StringProperty("Other") }

\* the names of the loaded models: the selected one and, when it is open,
\* the one named "Baseline"
LoadedModelNames == { {"Current"}, {"Current", "Baseline"} }

\* String.prototype.trim
RECURSIVE trim(_)
trim(str) ==
  IF Len(str) > 0 /\ SubSeq(str, 1, 1) = " " THEN trim(SubSeq(str, 2, Len(str)))
  ELSE IF Len(str) > 0 /\ SubSeq(str, Len(str), Len(str)) = " "
  THEN trim(SubSeq(str, 1, Len(str) - 1))
  ELSE str

NoReport ==
  [dataRows |-> <<>>, internExtern |-> EmptyMap, rows |-> EmptyMap, cells |-> EmptyMap,
   columns |-> EmptyMap]

\* identity of the Set object created by `owner` for the row (a, s)
SetRef(owner, a, s) == [table |-> owner, a |-> a, s |-> s]

----------------------------------------------------------------------------
(* comatrix.js: sortElementsByDomain                                        *)

\* String.prototype.localeCompare on the strings of the universe
StringRank(x) ==
  CASE x = "" -> 0
    [] x = "(kein Fachbereich)" -> 1
    [] x = "(keine Domäne)" -> 2
    [] x = "Billing" -> 3
    [] x = "cycle" -> 4
    [] x = "Einkauf" -> 5
    [] x = "Finance" -> 6
    [] x = "Geschäftsanwendung" -> 7
    [] x = "MobileApp" -> 8
    [] x = "N/A" -> 9
    [] x = "Order System" -> 10
    [] x = "Portal" -> 11
    [] x = "Querschnittsanwendung" -> 12
    [] x = "Register" -> 13
    [] x = "REST" -> 14
    [] x = "Sales" -> 15
    [] x = "SOAP" -> 16
    [] x = "Vertrieb" -> 17
    [] OTHER -> 18

localeCompare(x, y) ==
  IF StringRank(x) < StringRank(y) THEN -1
  ELSE IF StringRank(x) > StringRank(y) THEN 1
  ELSE 0

compareByDomain_EmptyFirst(elementsMap, name1, name2) ==
  LET domain1 == elementsMap[name1].domain
      domain2 == elementsMap[name2].domain
  IN IF domain1 # domain2 THEN localeCompare(domain1, domain2)
     ELSE localeCompare(name1, name2)

\* lines 17-32: the comparator
compareByDomain(elementsMap, name1, name2) ==
  LET domain1 == elementsMap[name1].domain
      domain2 == elementsMap[name2].domain
  IN IF domain1 = "" /\ domain2 # "" THEN 1
     ELSE IF domain1 # "" /\ domain2 = "" THEN -1
     ELSE IF domain1 # domain2 THEN localeCompare(domain1, domain2)
     ELSE localeCompare(name1, name2)

\* Array.prototype.sort with that comparator
RECURSIVE sortKeys(_, _)
sortKeys(elementsMap, keys) ==
  IF keys = {} THEN <<>>
  ELSE LET first == CHOOSE x \in keys :
                      \A y \in keys : compareByDomain(elementsMap, x, y) <= 0
       IN <<first>> \o sortKeys(elementsMap, keys \ {first})

sortElementsByDomain(elementsMap) == sortKeys(elementsMap, DOMAIN elementsMap)

----------------------------------------------------------------------------
(* model.js: extractElements                                                *)

\* line 127: relationship.name && relationship.name.startsWith("NST_")
qualifies_AnyName(relationship) == Len(relationship.name) >= 1

qualifies(relationship) ==
  /\ Len(relationship.name) >= 4
  /\ SubSeq(relationship.name, 1, 4) = "NST_"

\* lines 129-145 for one qualifying relationship: prop(...) || "" is the array
\* when there is one (an empty array is truthy) and the string "" otherwise,
\* and "".forEach is not a function
pushed_FirstValueOnly(relationship) ==
  IF relationship.prop.kind = "null"
  THEN [threw |-> TRUE, relationships |-> <<>>]
  ELSE [threw |-> FALSE,
        relationships |->
          [i \in 1..(IF Len(relationship.prop.values) = 0 THEN 0 ELSE 1) |->
             Rel(relationship.target, relationship.targetDomain,
                 relationship.prop.values[i],
                 relationship.source, relationship.sourceDomain)]]

pushed(relationship) ==
  IF relationship.prop.kind = "null"
  THEN [threw |-> TRUE, relationships |-> <<>>]
  ELSE [threw |-> FALSE,
        relationships |->
          [i \in 1..Len(relationship.prop.values) |->
             Rel(relationship.target, relationship.targetDomain,
                 relationship.prop.values[i],
                 relationship.source, relationship.sourceDomain)]]

\* a node of the model; the relationship carries what findDomain makes of it
Node(name, domain) == [name |-> name, domain |-> domain]

\* lines 132-134 for one qualifying relationship:
\* findDomain(relationship.source), then findDomain(relationship.target)
resolved(relationship) ==
  << Node(relationship.source, relationship.sourceDomain),
     Node(relationship.target, relationship.targetDomain) >>

RECURSIVE findDomainCalls_Memoized(_)
findDomainCalls_Memoized(relationships) ==
  IF relationships = <<>> THEN <<>>
  ELSE LET front  == SubSeq(relationships, 1, Len(relationships) - 1)
           last   == relationships[Len(relationships)]
           before == findDomainCalls_Memoized(front)
           known  == {before[i] : i \in 1..Len(before)}
           src    == resolved(last)[1]
           tgt    == resolved(last)[2]
       IN IF ~qualifies(last)
             \/ \E k \in 1..Len(front) : qualifies(front[k]) /\ pushed(front[k]).threw
          THEN before
          ELSE before \o (IF src \in known THEN <<>> ELSE <<src>>)
                      \o (IF tgt \in known \/ tgt = src THEN <<>> ELSE <<tgt>>)

\* lines 120-150: the findDomain calls made until the end or until the throw
RECURSIVE findDomainCalls(_)
findDomainCalls(relationships) ==
  IF relationships = <<>> THEN <<>>
  ELSE LET first == Head(relationships)
       IN IF ~qualifies(first) THEN findDomainCalls(Tail(relationships))
          ELSE resolved(first)
                 \o (IF pushed(first).threw THEN <<>>
                     ELSE findDomainCalls(Tail(relationships)))

\* lines 120-150: the relationships pushed until the end or until the throw
RECURSIVE extractElements(_)
extractElements(relationships) ==
  IF relationships = <<>> THEN [threw |-> FALSE, relationships |-> <<>>]
  ELSE LET first == Head(relationships)
           here  == IF qualifies(first) THEN pushed(first)
                    ELSE [threw |-> FALSE, relationships |-> <<>>]
           rest  == extractElements(Tail(relationships))
       IN IF here.threw THEN here
          ELSE [threw |-> rest.threw,
                relationships |-> here.relationships \o rest.relationships]

----------------------------------------------------------------------------
(* comatrix.js: buildComatrix                                               *)

\* line 55: rel.schnittstelle || "N/A"
schnittstelleOf(rel) == IF rel.schnittstelle = "" THEN "N/A" ELSE rel.schnittstelle

buildRow_OverwriteDomain(acc, rel, owner) ==
  LET aName == rel.target
      bName == rel.source
      s     == schnittstelleOf(rel)
      a0    == IF aName \in DOMAIN acc.aElements THEN acc.aElements
               ELSE acc.aElements @@
                      (aName :> [domain |-> rel.targetDomain,
                                 schnittstellenMap |-> EmptyMap])
      a1    == [a0 EXCEPT ![aName].domain = rel.targetDomain]
      isNew == s \notin DOMAIN a1[aName].schnittstellenMap
      ref   == IF isNew THEN SetRef(owner, aName, s)
               ELSE a1[aName].schnittstellenMap[s]
      a2    == IF isNew
               THEN [a1 EXCEPT ![aName].schnittstellenMap = @ @@ (s :> ref)]
               ELSE a1
      h1    == IF isNew THEN acc.heap @@ (ref :> {}) ELSE acc.heap
  IN [aElements    |-> a2,
      bElementsMap |-> IF bName \in DOMAIN acc.bElementsMap THEN acc.bElementsMap
                       ELSE acc.bElementsMap @@ (bName :> [domain |-> rel.sourceDomain]),
      heap         |-> [h1 EXCEPT ![ref] = @ \cup {bName}]]

\* lines 52-77: the body of relationships.forEach for one relationship;
\* acc holds aElements, bElementsMap and the heap of Set objects
buildRow(acc, rel, owner) ==
  LET aName == rel.target
      bName == rel.source
      s     == schnittstelleOf(rel)
      a1    == IF aName \in DOMAIN acc.aElements THEN acc.aElements
               ELSE acc.aElements @@
                      (aName :> [domain |-> rel.targetDomain,
                                 schnittstellenMap |-> EmptyMap])
      isNew == s \notin DOMAIN a1[aName].schnittstellenMap
      ref   == IF isNew THEN SetRef(owner, aName, s)
               ELSE a1[aName].schnittstellenMap[s]
      a2    == IF isNew
               THEN [a1 EXCEPT ![aName].schnittstellenMap = @ @@ (s :> ref)]
               ELSE a1
      h1    == IF isNew THEN acc.heap @@ (ref :> {}) ELSE acc.heap
  IN [aElements    |-> a2,
      bElementsMap |-> IF bName \in DOMAIN acc.bElementsMap THEN acc.bElementsMap
                       ELSE acc.bElementsMap @@ (bName :> [domain |-> rel.sourceDomain]),
      heap         |-> [h1 EXCEPT ![ref] = @ \cup {bName}]]

RECURSIVE buildRows(_, _, _)
buildRows(acc, relationships, owner) ==
  IF relationships = <<>> THEN acc
  ELSE buildRows(buildRow(acc, Head(relationships), owner), Tail(relationships), owner)

\* lines 40-99; the result is the table and the heap with its new Set objects
buildComatrix(relationships, owner, h) ==
  LET acc == buildRows([aElements |-> EmptyMap, bElementsMap |-> EmptyMap, heap |-> h],
                       relationships, owner)
  IN [table |-> [aElements       |-> acc.aElements,
                 bElementsMap    |-> acc.bElementsMap,
                 sortedAElements |-> sortElementsByDomain(acc.aElements),
                 sortedBElements |-> sortElementsByDomain(acc.bElementsMap),
                 relationships   |-> relationships],
      heap  |-> acc.heap]

----------------------------------------------------------------------------
(* comatrix.js: merge                                                       *)

\* lines 128-134 and 168-174: which domain an element of both tables gets
mergedDomain_KeepBaseUnlessEmpty(existingDomain, valueDomain) ==
  IF existingDomain = "" THEN valueDomain ELSE existingDomain

mergedDomain(existingDomain, valueDomain) ==
  IF existingDomain = "" \/ existingDomain # valueDomain
  THEN valueDomain
  ELSE existingDomain

\* lines 141-143: bSet.forEach(b => existing.add(b)), the members afterwards
addAll_Replace(existingSet, bSet) == bSet

addAll(existingSet, bSet) == existingSet \cup bSet

\* lines 114-119 and 148-151: { domain, schnittstellenMap: new Map(...) }:
\* a new Map object whose values are the same Set objects
copyElement(value) ==
  [domain |-> value.domain, schnittstellenMap |-> value.schnittstellenMap]

\* lines 136-145: the schnittstellenMap of an element of both tables; an
\* interface of the baseline keeps the baseline's Set object, an interface of
\* the current table alone gets a new Set
mergedSchnittstellenMap_ExistingOnly(aName, existingMap, valueMap) ==
  [s \in DOMAIN existingMap |-> existingMap[s]]

mergedSchnittstellenMap(aName, existingMap, valueMap) ==
  [s \in DOMAIN existingMap \cup DOMAIN valueMap |->
     IF s \in DOMAIN existingMap THEN existingMap[s]
     ELSE SetRef("merged", aName, s)]

\* lines 111-153
mergedAElements(base, current) ==
  [key \in DOMAIN base.aElements \cup DOMAIN current.aElements |->
     IF key \in DOMAIN base.aElements /\ key \in DOMAIN current.aElements
     THEN [domain |-> mergedDomain(base.aElements[key].domain,
                                   current.aElements[key].domain),
           schnittstellenMap |->
             mergedSchnittstellenMap(key, base.aElements[key].schnittstellenMap,
                                     current.aElements[key].schnittstellenMap)]
     ELSE IF key \in DOMAIN base.aElements
     THEN copyElement(base.aElements[key])
     ELSE copyElement(current.aElements[key])]

\* lines 136-145: what the merge does to the Set objects: an interface of
\* both tables has the current members added to the Set the merged map holds
\* (line 142), an interface of the current table alone gets a copy (line 138)
mergedHeap(base, current, h) ==
  LET both == DOMAIN base.aElements \cap DOMAIN current.aElements
      baseMap(a) == base.aElements[a].schnittstellenMap
      curMap(a)  == current.aElements[a].schnittstellenMap
      fresh == UNION {{SetRef("merged", a, s) : s \in DOMAIN curMap(a) \ DOMAIN baseMap(a)}
                        : a \in both}
      added(r) == UNION {UNION {h[curMap(a)[s]] :
                                  s \in {x \in DOMAIN baseMap(a) \cap DOMAIN curMap(a) :
                                           baseMap(a)[x] = r}}
                           : a \in both}
  IN [r \in DOMAIN h \cup fresh |->
        IF r \in fresh THEN h[curMap(r.a)[r.s]]
        ELSE addAll(h[r], added(r))]

mergedBElements_CurrentOnly(base, current) ==
  [name \in DOMAIN current.bElementsMap |->
     IF name \in DOMAIN base.bElementsMap
     THEN [domain |-> mergedDomain(base.bElementsMap[name].domain,
                                   current.bElementsMap[name].domain)]
     ELSE [domain |-> current.bElementsMap[name].domain]]

\* lines 155-178
mergedBElements(base, current) ==
  [name \in DOMAIN base.bElementsMap \cup DOMAIN current.bElementsMap |->
     IF name \in DOMAIN base.bElementsMap /\ name \in DOMAIN current.bElementsMap
     THEN [domain |-> mergedDomain(base.bElementsMap[name].domain,
                                   current.bElementsMap[name].domain)]
     ELSE IF name \in DOMAIN base.bElementsMap
     THEN [domain |-> base.bElementsMap[name].domain]
     ELSE [domain |-> current.bElementsMap[name].domain]]

\* lines 180-183: the merged elements are sorted again
sortMerged_ByName(elementsMap) ==
  LET byName == [k \in DOMAIN elementsMap |-> [domain |-> "Sales"]]
  IN sortKeys(byName, DOMAIN elementsMap)

sortMerged(elementsMap) == sortElementsByDomain(elementsMap)

\* lines 107-202
merge(base, current, h) ==
  LET aElements    == mergedAElements(base, current)
      bElementsMap == mergedBElements(base, current)
  IN [table |-> [aElements       |-> aElements,
                 bElementsMap    |-> bElementsMap,
                 sortedAElements |-> sortMerged(aElements),
                 sortedBElements |-> sortMerged(bElementsMap),
                 relationships   |-> base.relationships \o current.relationships],
      heap  |-> mergedHeap(base, current, h)]

----------------------------------------------------------------------------
(* comatrix-bundled.js: output2Excel, the comparison of baseline and       *)
(* current table                                                            *)

\* lines 275-285: the rows (A-element, Schnittstelle) of a table
rowCombinations(table) ==
  UNION {{<<a, s>> : s \in DOMAIN table.aElements[a].schnittstellenMap}
           : a \in DOMAIN table.aElements}

\* table.aElements.get(a).schnittstellenMap.get(s), read now
targetSet(table, h, a, s) == h[table.aElements[a].schnittstellenMap[s]]

\* lines 716-734: aElements.has(a) && schnittstellenMap.has(s) && set.has(b)
hasConnection(table, h, a, s, b) ==
  /\ a \in DOMAIN table.aElements
  /\ s \in DOMAIN table.aElements[a].schnittstellenMap
  /\ b \in targetSet(table, h, a, s)

\* lines 291-321
changedRowCombinations(base, current, h) ==
  {combo \in rowCombinations(current) \cap rowCombinations(base) :
     LET baseBSet    == targetSet(base, h, combo[1], combo[2])
         currentBSet == targetSet(current, h, combo[1], combo[2])
     IN \/ \E bName \in baseBSet : bName \notin currentBSet
        \/ \E bName \in currentBSet : bName \notin baseBSet}

\* lines 324-382
changedBElements(merged, base, current, h) ==
  {bName \in SeqToSet(merged.sortedBElements) :
     /\ bName \in DOMAIN base.bElementsMap
     /\ bName \in DOMAIN current.bElementsMap
     /\ \/ \E combo \in rowCombinations(base) :
             (bName \in targetSet(base, h, combo[1], combo[2]))
               # hasConnection(current, h, combo[1], combo[2], bName)
        \/ \E combo \in rowCombinations(current) :
             /\ bName \in targetSet(current, h, combo[1], combo[2])
             /\ ~hasConnection(base, h, combo[1], combo[2], bName)}

rowStatus_NoRemoved(compare, base, current, h, combo) ==
  LET isNewRow     == compare /\ combo \notin rowCombinations(base)
                              /\ combo \in rowCombinations(current)
      isChangedRow == compare /\ combo \in changedRowCombinations(base, current, h)
  IN IF isNewRow THEN "new"
     ELSE IF isChangedRow THEN "changed"
     ELSE "unchanged"

\* lines 663-697: the status shown in columns A-D of a row
rowStatus(compare, base, current, h, combo) ==
  LET isNewRow     == compare /\ combo \notin rowCombinations(base)
                              /\ combo \in rowCombinations(current)
      isRemovedRow == compare /\ combo \in rowCombinations(base)
                              /\ combo \notin rowCombinations(current)
      isChangedRow == compare /\ combo \in changedRowCombinations(base, current, h)
  IN IF isNewRow THEN "new"
     ELSE IF isChangedRow THEN "changed"
     ELSE IF isRemovedRow THEN "removed"
     ELSE "unchanged"

\* lines 700-754: the status shown in an "x" cell
cellStatus(compare, base, current, h, a, s, bName) ==
  LET isNewRow     == compare /\ <<a, s>> \notin rowCombinations(base)
                              /\ <<a, s>> \in rowCombinations(current)
      isRemovedRow == compare /\ <<a, s>> \in rowCombinations(base)
                              /\ <<a, s>> \notin rowCombinations(current)
      isNewB       == compare /\ bName \notin DOMAIN base.bElementsMap
      isRemovedB   == compare /\ bName \notin DOMAIN current.bElementsMap
      inBaseline   == compare /\ hasConnection(base, h, a, s, bName)
      inCurrent    == compare /\ hasConnection(current, h, a, s, bName)
      connectionStatus ==
        IF inCurrent /\ ~inBaseline THEN "new"
        ELSE IF inBaseline /\ ~inCurrent THEN "removed"
        ELSE "existing"
  IN IF connectionStatus = "new" \/ isNewRow \/ isNewB THEN "new"
     ELSE IF connectionStatus = "removed" \/ isRemovedRow \/ isRemovedB THEN "removed"
     ELSE "unchanged"

\* lines 791-853: the status shown in the header of a B-element column
columnStatus(compare, merged, base, current, h, bName) ==
  LET isNewB     == compare /\ bName \notin DOMAIN base.bElementsMap
      isRemovedB == compare /\ bName \notin DOMAIN current.bElementsMap
      isChangedB == compare /\ bName \in changedBElements(merged, base, current, h)
  IN IF isNewB THEN "new"
     ELSE IF isRemovedB THEN "removed"
     ELSE IF isChangedB THEN "changed"
     ELSE "unchanged"

\* lines 431-452: column D of a row. bDomain is the domain the table holds
\* for the B-element; the test of line 439 asks whether both domains are
\* non-empty, not whether they are the same
internExtern(merged, h, a, s) ==
  LET aDomain   == merged.aElements[a].domain
      connected == {bName \in SeqToSet(merged.sortedBElements) :
                      bName \in targetSet(merged, h, a, s)}
      bDomain(bName) == merged.bElementsMap[bName].domain
      hasConnectionWithDomain ==
        \E bName \in connected : aDomain # "" /\ bDomain(bName) # ""
      hasConnectionWithoutDomain ==
        \E bName \in connected : ~(aDomain # "" /\ bDomain(bName) # "")
  IN IF hasConnectionWithoutDomain THEN "extern"
     ELSE IF hasConnectionWithDomain THEN "intern"
     ELSE ""

\* Array.prototype.sort without a comparator orders strings by their UTF-16
\* code units; the rank of the strings that can be interface keys
CodeUnitRank(x) ==
  CASE x = "N/A" -> 1
    [] x = "REST" -> 2
    [] x = "SOAP" -> 3
    [] OTHER -> 4

\* line 426: Array.from(schnittstellenMap.keys()).sort()
RECURSIVE sortedSchnittstellen(_)
sortedSchnittstellen(keys) ==
  IF keys = {} THEN <<>>
  ELSE LET first == CHOOSE x \in keys :
                      \A y \in keys : CodeUnitRank(x) <= CodeUnitRank(y)
       IN <<first>> \o sortedSchnittstellen(keys \ {first})

\* lines 422-428: the data rows in the order they are written, one per
\* A-element of sortedAElements and interface of sortedSchnittstellen
RECURSIVE dataRows(_, _)
dataRows(merged, aNames) ==
  IF aNames = <<>> THEN <<>>
  ELSE LET aName == Head(aNames)
           keys  == sortedSchnittstellen(DOMAIN merged.aElements[aName].schnittstellenMap)
       IN [i \in 1..Len(keys) |-> <<aName, keys[i]>>]
            \o dataRows(merged, Tail(aNames))

\* lines 230-878, the part that classifies; compare is
\* comatrixBase && comatrixCurrent
output2Excel(merged, compare, base, current, h) ==
  [dataRows |-> dataRows(merged, merged.sortedAElements),
   internExtern |-> [combo \in rowCombinations(merged) |->
                       internExtern(merged, h, combo[1], combo[2])],
   rows    |-> [combo \in rowCombinations(merged) |->
                  rowStatus(compare, base, current, h, combo)],
   cells   |-> [cell \in UNION {{<<combo[1], combo[2], b>> :
                                   b \in targetSet(merged, h, combo[1], combo[2])}
                                  : combo \in rowCombinations(merged)} |->
                  cellStatus(compare, base, current, h, cell[1], cell[2], cell[3])],
   columns |-> [bName \in SeqToSet(merged.sortedBElements) |->
                  columnStatus(compare, merged, base, current, h, bName)]]

----------------------------------------------------------------------------
(* applist.js: runAppList                                                   *)

MaxApps == 2

\* lines 154-158
allowedSpecializations == {"Geschäftsanwendung", "Register", "Querschnittsanwendung"}

\* what the application components of a model offer: their names, their
\* specializations, and what findDomain and findFachbereich return for them
ComponentNames == {"Billing", "Order System"}

ComponentSpecializations == {"Geschäftsanwendung", "Register", "Schnittstelle"}

FoundDomains == {"", "cycle", "Sales"}

FoundFachbereiche == {"", "cycle", "Einkauf", "Vertrieb"}

\* lines 165-170: the entry pushed for an application component
applicationEntry(name, spec, domain, fachbereich) ==
  [name        |-> name,
   typ         |-> spec,
   domain      |-> catalogValue(domain, "(keine Domäne)"),
   fachbereich |-> catalogValue(fachbereich, "(kein Fachbereich)")]

\* lines 184-220: the comparator handed to applications.sort
compareApplications_PlainLexical(a, b) ==
  IF a.fachbereich # b.fachbereich THEN localeCompare(a.fachbereich, b.fachbereich)
  ELSE IF a.domain # b.domain THEN localeCompare(a.domain, b.domain)
  ELSE IF a.typ # b.typ THEN localeCompare(a.typ, b.typ)
  ELSE localeCompare(a.name, b.name)

compareApplications_SentinelsLast(a, b) ==
  LET sentinel(x) == x \in {"(kein Fachbereich)", "(keine Domäne)", "cycle"}
  IN IF sentinel(a.fachbereich) /\ ~sentinel(b.fachbereich) THEN 1
     ELSE IF ~sentinel(a.fachbereich) /\ sentinel(b.fachbereich) THEN -1
     ELSE IF a.fachbereich # b.fachbereich
     THEN localeCompare(a.fachbereich, b.fachbereich)
     ELSE IF sentinel(a.domain) /\ ~sentinel(b.domain) THEN 1
     ELSE IF ~sentinel(a.domain) /\ sentinel(b.domain) THEN -1
     ELSE IF a.domain # b.domain THEN localeCompare(a.domain, b.domain)
     ELSE IF a.typ # b.typ THEN localeCompare(a.typ, b.typ)
     ELSE localeCompare(a.name, b.name)

compareApplications(a, b) ==
  IF a.fachbereich = "(kein Fachbereich)" /\ b.fachbereich # "(kein Fachbereich)" THEN 1
  ELSE IF a.fachbereich # "(kein Fachbereich)" /\ b.fachbereich = "(kein Fachbereich)" THEN -1
  ELSE IF a.fachbereich # b.fachbereich THEN localeCompare(a.fachbereich, b.fachbereich)
  ELSE IF a.domain = "(keine Domäne)" /\ b.domain # "(keine Domäne)" THEN 1
  ELSE IF a.domain # "(keine Domäne)" /\ b.domain = "(keine Domäne)" THEN -1
  ELSE IF a.domain # b.domain THEN localeCompare(a.domain, b.domain)
  ELSE IF a.typ # b.typ THEN localeCompare(a.typ, b.typ)
  ELSE localeCompare(a.name, b.name)

\* Array.prototype.sort, which is stable: an entry goes behind the entries
\* that do not compare greater
RECURSIVE insertApplication(_, _)
insertApplication(sorted, entry) ==
  IF sorted = <<>> THEN <<entry>>
  ELSE IF compareApplications(Head(sorted), entry) <= 0
  THEN <<Head(sorted)>> \o insertApplication(Tail(sorted), entry)
  ELSE <<entry>> \o sorted

RECURSIVE sortApplications(_)
sortApplications(list) ==
  IF list = <<>> THEN <<>>
  ELSE insertApplication(sortApplications(SubSeq(list, 1, Len(list) - 1)),
                         list[Len(list)])

InitList ==
  /\ applications = <<>>
  /\ listPc = "collect"

\* lines 160-172: one step of allAppComponents.each
visitComponent(name, spec, domain, fachbereich) ==
  /\ listPc = "collect"
  /\ Len(applications) < MaxApps
  /\ applications' = IF spec \in allowedSpecializations
                     THEN Append(applications,
                                 applicationEntry(name, spec, domain, fachbereich))
                     ELSE applications
  /\ UNCHANGED listPc
  /\ UNCHANGED <<resolveVars, runVars, legacyVars>>

\* lines 176-181
NoApplications ==
  /\ listPc = "collect"
  /\ Len(applications) = 0
  /\ listPc' = "noApplications"
  /\ UNCHANGED applications
  /\ UNCHANGED <<resolveVars, runVars, legacyVars>>

\* lines 183-220
SortApplications ==
  /\ listPc = "collect"
  /\ Len(applications) # 0
  /\ applications' = sortApplications(applications)
  /\ listPc' = "sorted"
  /\ UNCHANGED <<resolveVars, runVars, legacyVars>>

\* line 248, inside the try block of lines 142-280
WriteAppList(writerFails) ==
  /\ listPc = "sorted"
  /\ listPc' = IF writerFails THEN "caught" ELSE "exported"
  /\ UNCHANGED applications
  /\ UNCHANGED <<resolveVars, runVars, legacyVars>>

\* the run is over; the next one collects anew
FinishList ==
  /\ listPc \in {"noApplications", "exported", "caught"}
  /\ applications' = <<>>
  /\ listPc' = "collect"
  /\ UNCHANGED <<resolveVars, runVars, legacyVars>>

NextList ==
  \/ \E name \in ComponentNames, spec \in ComponentSpecializations,
        domain \in FoundDomains, fachbereich \in FoundFachbereiche :
          visitComponent(name, spec, domain, fachbereich)
  \/ NoApplications
  \/ SortApplications
  \/ \E writerFails \in BOOLEAN : WriteAppList(writerFails)
  \/ FinishList

----------------------------------------------------------------------------
(* comatrix-bundled.js: findDomain, lines 885-917                           *)

\* the call stack of the interpreter holds this many findDomain frames
MaxDepth == 5

\* lines 898-899: the Set `visited` of a call is created in that call and
\* holds the element of the call only
legacyVisited(frame) == {frame.element}

LegacyTop == legacyStack[Len(legacyStack)]

SetLegacyTop(f) == [legacyStack EXCEPT ![Len(legacyStack)] = f]

InitLegacy ==
  /\ domainProp = {}
  /\ legacyPc = "idle"
  /\ legacyArg = "e1"
  /\ legacyStack = <<>>
  /\ legacyRet = ""

\* a call from extractElements (lines 936 and 938); the model has the property
\* "Domäne" on the elements withProp
LegacyFind(element, withProp) ==
  /\ pc = "idle"
  /\ legacyPc = "idle"
  /\ domainProp' = withProp
  /\ legacyArg' = element
  /\ legacyStack' = <<>>
  /\ legacyRet' = ""
  /\ legacyPc' = "call"
  /\ UNCHANGED <<resolveVars, runVars, listVars>>

\* lines 887-890: the element has the property
LegacyOwnDomain ==
  /\ legacyPc = "call"
  /\ legacyArg \in domainProp
  /\ legacyRet' = profile.name[legacyArg]
  /\ legacyPc' = "return"
  /\ UNCHANGED <<domainProp, legacyArg, legacyStack>>
  /\ UNCHANGED <<resolveVars, runVars, listVars>>

\* lines 893-899: the call goes on to its parents
LegacyEnter ==
  /\ legacyPc = "call"
  /\ legacyArg \notin domainProp
  /\ Len(legacyStack) < MaxDepth
  /\ legacyStack' = Append(legacyStack, [element |-> legacyArg, i |-> 1])
  /\ legacyPc' = "loop"
  /\ UNCHANGED <<domainProp, legacyArg, legacyRet>>
  /\ UNCHANGED <<resolveVars, runVars, listVars>>

\* the interpreter has no room for another frame
LegacyOverflow ==
  /\ legacyPc = "call"
  /\ legacyArg \notin domainProp
  /\ Len(legacyStack) = MaxDepth
  /\ legacyPc' = "overflow"
  /\ UNCHANGED <<domainProp, legacyArg, legacyStack, legacyRet>>
  /\ UNCHANGED <<resolveVars, runVars, listVars>>

\* lines 905-907: the parent is in the Set of this call
LegacySkip ==
  /\ legacyPc = "loop"
  /\ LegacyTop.i <= Len(incomingRels(LegacyTop.element))
  /\ incomingRels(LegacyTop.element)[LegacyTop.i] \in legacyVisited(LegacyTop)
  /\ legacyStack' = SetLegacyTop([LegacyTop EXCEPT !.i = @ + 1])
  /\ UNCHANGED <<domainProp, legacyPc, legacyArg, legacyRet>>
  /\ UNCHANGED <<resolveVars, runVars, listVars>>

\* line 910: the recursive call
LegacyRecurse ==
  /\ legacyPc = "loop"
  /\ LegacyTop.i <= Len(incomingRels(LegacyTop.element))
  /\ incomingRels(LegacyTop.element)[LegacyTop.i] \notin legacyVisited(LegacyTop)
  /\ legacyArg' = incomingRels(LegacyTop.element)[LegacyTop.i]
  /\ legacyPc' = "call"
  /\ UNCHANGED <<domainProp, legacyStack, legacyRet>>
  /\ UNCHANGED <<resolveVars, runVars, listVars>>

\* lines 911-913: the parent's domain is returned
LegacyTakeDomain ==
  /\ legacyPc = "return"
  /\ legacyStack # <<>>
  /\ legacyRet # ""
  /\ legacyStack' = SubSeq(legacyStack, 1, Len(legacyStack) - 1)
  /\ UNCHANGED <<domainProp, legacyPc, legacyArg, legacyRet>>
  /\ UNCHANGED <<resolveVars, runVars, listVars>>

\* lines 911 and 901: the parent has no domain, the loop goes on
LegacyTryNext ==
  /\ legacyPc = "return"
  /\ legacyStack # <<>>
  /\ legacyRet = ""
  /\ legacyStack' = SetLegacyTop([LegacyTop EXCEPT !.i = @ + 1])
  /\ legacyPc' = "loop"
  /\ UNCHANGED <<domainProp, legacyArg, legacyRet>>
  /\ UNCHANGED <<resolveVars, runVars, listVars>>

\* line 916: no parent has a domain
LegacyLeave ==
  /\ legacyPc = "loop"
  /\ LegacyTop.i > Len(incomingRels(LegacyTop.element))
  /\ legacyRet' = ""
  /\ legacyStack' = SubSeq(legacyStack, 1, Len(legacyStack) - 1)
  /\ legacyPc' = "return"
  /\ UNCHANGED <<domainProp, legacyArg>>
  /\ UNCHANGED <<resolveVars, runVars, listVars>>

\* the outermost call has returned to extractElements
LegacyDone ==
  /\ legacyPc = "return"
  /\ legacyStack = <<>>
  /\ legacyPc' = "done"
  /\ UNCHANGED <<domainProp, legacyArg, legacyStack, legacyRet>>
  /\ UNCHANGED <<resolveVars, runVars, listVars>>

\* the caller goes on, or the run has ended with the error of the interpreter
LegacyFinish ==
  /\ legacyPc \in {"done", "overflow"}
  /\ legacyPc' = "idle"
  /\ domainProp' = {}
  /\ legacyArg' = "e1"
  /\ legacyStack' = <<>>
  /\ legacyRet' = ""
  /\ UNCHANGED <<resolveVars, runVars, listVars>>

NextLegacy ==
  \/ \E p \in Elements, c \in Elements, t \in RelTypes : AddRelationship(p, c, t)
  \/ \E e \in Elements, withProp \in SUBSET Elements : LegacyFind(e, withProp)
  \/ LegacyOwnDomain
  \/ LegacyEnter
  \/ LegacyOverflow
  \/ LegacySkip
  \/ LegacyRecurse
  \/ LegacyTakeDomain
  \/ LegacyTryNext
  \/ LegacyLeave
  \/ LegacyDone
  \/ LegacyFinish

----------------------------------------------------------------------------
(* comatrix.js: runComatrix                                                 *)

InitRun ==
  /\ baselineModel = <<>>
  /\ model = <<>>
  /\ runPc = "idle"
  /\ compareMode = FALSE
  /\ heap = EmptyMap
  /\ comatrixBase = EmptyTable
  /\ comatrixCurrent = EmptyTable
  /\ comatrix = EmptyTable
  /\ report = NoReport
  /\ failure = "none"
  /\ writerCalls = 0
  /\ domainCalls = <<>>

Init == InitResolve /\ InitRun /\ InitList /\ InitLegacy

\* the two Archi models are edited between runs
AddBaselineRelationship(rel) ==
  /\ runPc = "idle"
  /\ Len(baselineModel) < MaxRels
  /\ ~Contains(baselineModel, rel)
  /\ baselineModel' = Append(baselineModel, rel)
  /\ UNCHANGED <<model, runPc, compareMode, heap, comatrixBase, comatrixCurrent,
                 comatrix, report, failure, writerCalls>>
  /\ UNCHANGED domainCalls
  /\ UNCHANGED <<resolveVars, listVars, legacyVars>>

AddModelRelationship(rel) ==
  /\ runPc = "idle"
  /\ Len(model) < MaxRels
  /\ ~Contains(model, rel)
  /\ model' = Append(model, rel)
  /\ UNCHANGED <<baselineModel, runPc, compareMode, heap, comatrixBase,
                 comatrixCurrent, comatrix, report, failure, writerCalls>>
  /\ UNCHANGED domainCalls
  /\ UNCHANGED <<resolveVars, listVars, legacyVars>>

\* line 237: !baselineProperty || baselineProperty.trim() === ""
isBlank(property) ==
  IF property.kind = "null" THEN TRUE
  ELSE property.value = "" \/ trim(property.value) = ""

findBaseline_TrimmedName(loaded, property) ==
  \E name \in loaded : trim(name) = trim(property.value)

\* line 244: loadedModels.find((m) => m.name === baselineProperty) finds a
\* model
findBaseline(loaded, property) == \E name \in loaded : name = property.value

\* lines 207-255: the host hands over the value of the selected model's
\* property "baseline" and the names of the loaded models; the model named
\* "Baseline", when it is loaded, is baselineModel. Neither value is read
\* after line 255
StartRun(property, loaded) ==
  /\ runPc = "idle"
  /\ compareMode' = IF isBlank(property) THEN FALSE
                    ELSE findBaseline(loaded, property)
  /\ runPc' = "extract"
  /\ UNCHANGED <<baselineModel, model, heap, comatrixBase, comatrixCurrent,
                 comatrix, report, failure, writerCalls>>
  /\ UNCHANGED domainCalls
  /\ UNCHANGED <<resolveVars, listVars, legacyVars>>

\* what an extraction ends with: the accessor of the host fails before a
\* relationship is read, or
\* extractElements throws on what the accessor handed back, or neither
thrownBy(relationships, accessorFails) ==
  IF accessorFails THEN "AccessorFailure"
  ELSE IF extractElements(relationships).threw THEN "TypeError"
  ELSE "none"

\* line 259: extractElements(model), before the try block: what it throws
\* leaves runComatrix
ExtractForLog(accessorFails) ==
  /\ runPc = "extract"
  /\ failure' = thrownBy(model, accessorFails)
  /\ runPc' = IF failure' = "none" THEN "build" ELSE "thrown"
  /\ UNCHANGED <<baselineModel, model, compareMode, heap, comatrixBase,
                 comatrixCurrent, comatrix, report, writerCalls>>
  /\ domainCalls' = IF accessorFails THEN <<>> ELSE findDomainCalls(model)
  /\ UNCHANGED <<resolveVars, listVars, legacyVars>>

\* line 296, inside the try block: what is thrown reaches the catch clause of
\* lines 344-351, which logs it and lets runComatrix return
BuildBaseline(accessorFails) ==
  /\ runPc = "build"
  /\ compareMode
  /\ failure' = thrownBy(baselineModel, accessorFails)
  /\ IF failure' = "none"
     THEN LET built == buildComatrix(extractElements(baselineModel).relationships,
                                     "base", heap)
          IN /\ comatrixBase' = built.table
             /\ heap' = built.heap
             /\ runPc' = "buildCurrent"
     ELSE /\ runPc' = "caught"
          /\ UNCHANGED <<comatrixBase, heap>>
  /\ UNCHANGED <<baselineModel, model, compareMode, comatrixCurrent, comatrix,
                 report, writerCalls>>
  /\ domainCalls' = IF accessorFails THEN <<>>
                    ELSE findDomainCalls(baselineModel)
  /\ UNCHANGED <<resolveVars, listVars, legacyVars>>

\* line 302
BuildCurrent(accessorFails) ==
  /\ runPc = "buildCurrent"
  /\ failure' = thrownBy(model, accessorFails)
  /\ IF failure' = "none"
     THEN LET built == buildComatrix(extractElements(model).relationships,
                                     "current", heap)
          IN /\ comatrixCurrent' = built.table
             /\ heap' = built.heap
             /\ runPc' = "built"
     ELSE /\ runPc' = "caught"
          /\ UNCHANGED <<comatrixCurrent, heap>>
  /\ UNCHANGED <<baselineModel, model, compareMode, comatrixBase, comatrix,
                 report, writerCalls>>
  /\ domainCalls' = IF accessorFails THEN <<>> ELSE findDomainCalls(model)
  /\ UNCHANGED <<resolveVars, listVars, legacyVars>>

\* line 319
BuildSingle(accessorFails) ==
  /\ runPc = "build"
  /\ ~compareMode
  /\ failure' = thrownBy(model, accessorFails)
  /\ IF failure' = "none"
     THEN LET built == buildComatrix(extractElements(model).relationships,
                                     "current", heap)
          IN /\ comatrix' = built.table
             /\ heap' = built.heap
             /\ runPc' = "built"
     ELSE /\ runPc' = "caught"
          /\ UNCHANGED <<comatrix, heap>>
  /\ UNCHANGED <<baselineModel, model, compareMode, comatrixBase, comatrixCurrent,
                 report, writerCalls>>
  /\ domainCalls' = IF accessorFails THEN <<>> ELSE findDomainCalls(model)
  /\ UNCHANGED <<resolveVars, listVars, legacyVars>>

\* lines 307-312 and 321-326
NoRelationships ==
  /\ runPc = "built"
  /\ Len(IF compareMode THEN comatrixCurrent.relationships
         ELSE comatrix.relationships) = 0
  /\ runPc' = "noRelationships"
  /\ UNCHANGED <<baselineModel, model, compareMode, heap, comatrixBase,
                 comatrixCurrent, comatrix, report, failure, writerCalls>>
  /\ UNCHANGED domainCalls
  /\ UNCHANGED <<resolveVars, listVars, legacyVars>>

\* line 315
MergeTables ==
  /\ runPc = "built"
  /\ compareMode
  /\ Len(comatrixCurrent.relationships) # 0
  /\ LET merged == merge(comatrixBase, comatrixCurrent, heap)
     IN /\ comatrix' = merged.table
        /\ heap' = merged.heap
  /\ runPc' = "output"
  /\ UNCHANGED <<baselineModel, model, compareMode, comatrixBase, comatrixCurrent,
                 report, failure, writerCalls>>
  /\ UNCHANGED domainCalls
  /\ UNCHANGED <<resolveVars, listVars, legacyVars>>

\* line 330, inside the try block: the writer writes the file or throws
WriteReport_Rethrow(writerFails) ==
  /\ \/ runPc = "output"
     \/ runPc = "built" /\ ~compareMode /\ Len(comatrix.relationships) # 0
  /\ writerCalls' = writerCalls + 1
  /\ IF writerFails
     THEN /\ failure' = "WriterFailure"
          /\ runPc' = "thrown"
          /\ UNCHANGED report
     ELSE /\ report' = output2Excel(comatrix, compareMode, comatrixBase,
                                    comatrixCurrent, heap)
          /\ runPc' = "exported"
          /\ UNCHANGED failure
  /\ UNCHANGED <<baselineModel, model, compareMode, heap, comatrixBase,
                 comatrixCurrent, comatrix>>
  /\ UNCHANGED domainCalls
  /\ UNCHANGED <<resolveVars, listVars, legacyVars>>

WriteReport(writerFails) ==
  /\ \/ runPc = "output"
     \/ runPc = "built" /\ ~compareMode /\ Len(comatrix.relationships) # 0
  /\ writerCalls' = writerCalls + 1
  /\ IF writerFails
     THEN /\ failure' = "WriterFailure"
          /\ runPc' = "caught"
          /\ UNCHANGED report
     ELSE /\ report' = output2Excel(comatrix, compareMode, comatrixBase,
                                    comatrixCurrent, heap)
          /\ runPc' = "exported"
          /\ UNCHANGED failure
  /\ UNCHANGED <<baselineModel, model, compareMode, heap, comatrixBase,
                 comatrixCurrent, comatrix>>
  /\ UNCHANGED domainCalls
  /\ UNCHANGED <<resolveVars, listVars, legacyVars>>

\* the run is over; the next one builds its tables anew
FinishRun ==
  /\ runPc \in {"exported", "noRelationships", "thrown", "caught"}
  /\ runPc' = "idle"
  /\ compareMode' = FALSE
  /\ heap' = EmptyMap
  /\ comatrixBase' = EmptyTable
  /\ comatrixCurrent' = EmptyTable
  /\ comatrix' = EmptyTable
  /\ report' = NoReport
  /\ failure' = "none"
  /\ writerCalls' = 0
  /\ domainCalls' = <<>>
  /\ UNCHANGED <<baselineModel, model>>
  /\ UNCHANGED <<resolveVars, listVars, legacyVars>>

NextRun ==
  \/ \E rel \in BaselineUniverse : AddBaselineRelationship(rel)
  \/ \E rel \in ModelUniverse : AddModelRelationship(rel)
  \/ \E property \in BaselineProperties, loaded \in LoadedModelNames :
        StartRun(property, loaded)
  \/ \E accessorFails \in BOOLEAN : ExtractForLog(accessorFails)
  \/ \E accessorFails \in BOOLEAN : BuildBaseline(accessorFails)
  \/ \E accessorFails \in BOOLEAN : BuildCurrent(accessorFails)
  \/ \E accessorFails \in BOOLEAN : BuildSingle(accessorFails)
  \/ NoRelationships
  \/ MergeTables
  \/ \E writerFails \in BOOLEAN : WriteReport(writerFails)
  \/ FinishRun

\* a run reads no element attributes: one assignment of them suffices
InitOfRun == Init /\ profile = CHOOSE p \in Profiles : p.name["e1"] = "Order System"

SpecRun == InitOfRun /\ [][NextRun]_vars

SpecList == InitOfRun /\ [][NextList]_vars

SpecLegacy == InitOfRun /\ [][NextLegacy]_vars

----------------------------------------------------------------------------
(* Specifications of the traversal                                          *)

TraversalStep == EnterCycle \/ Enter \/ Skip \/ Recurse \/ TakeParentResult \/ Leave \/ Render

NextResolve ==
  \/ \E p \in Elements, c \in Elements, t \in RelTypes : AddRelationship(p, c, t)
  \/ \E e \in Elements : findDomain(e)
  \/ \E e \in Elements : findFachbereich(e)
  \/ EnterCycle
  \/ Enter
  \/ Skip
  \/ Recurse
  \/ TakeParentResult
  \/ Leave
  \/ Render
  \/ appendApplication
  \/ Consume

SpecResolve == Init /\ [][NextResolve]_vars

\* the interpreter always runs a started call to its end
FairResolve == SpecResolve /\ WF_vars(TraversalStep)

----------------------------------------------------------------------------
(* Graph notions the properties of the traversal are stated with           *)

Parents(e) == {p \in Elements : \E t \in RelTypes : Edge(p, e, t) \in containment}

Children(e) == {c \in Elements : e \in Parents(c)}

RECURSIVE UpClosure(_)
UpClosure(S) ==
  LET S2 == S \cup UNION {Parents(x) : x \in S}
  IN IF S2 = S THEN S ELSE UpClosure(S2)

\* e and everything reachable from e walking from child to parent
ReachableFrom(e) == UpClosure({e})

\* everything reachable from e over at least one relationship
StrictAncestors(e) == UpClosure(Parents(e))

\* a cycle of containment relationships is reachable upward from e
CycleReachable(e) == \E n \in ReachableFrom(e) : n \in StrictAncestors(n)

\* the names a resolution of e for specialization k has to report
QualifyingNames(e, k) ==
  {profile.name[n] : n \in {m \in ReachableFrom(e) : profile.specialization[m] = k}}

NoDuplicates(s) == \A i, j \in 1..Len(s) : s[i] = s[j] => i = j

\* the top-level findAllGroupings call is about to be entered
CallStarted == pc = "call" /\ stack = <<>> /\ currentPath = {}

RECURSIVE SortedNames(_)
SortedNames(S) ==
  IF S = {} THEN <<>>
  ELSE LET m == CHOOSE x \in S : \A y \in S : localeCompare(x, y) <= 0
       IN <<m>> \o SortedNames(S \ {m})

\* the elements in the order a depth-first walk over incomingRels first
\* reaches them
RECURSIVE PreOrder(_, _)
PreOrder(todo, seen) ==
  IF todo = <<>> THEN <<>>
  ELSE IF Head(todo) \in seen THEN PreOrder(Tail(todo), seen)
  ELSE <<Head(todo)>>
         \o PreOrder(incomingRels(Head(todo)) \o Tail(todo), seen \cup {Head(todo)})

RECURSIVE FirstOccurrences(_)
FirstOccurrences(s) ==
  IF s = <<>> THEN <<>>
  ELSE LET r == FirstOccurrences(SubSeq(s, 1, Len(s) - 1))
       IN IF Contains(r, s[Len(s)]) THEN r ELSE Append(r, s[Len(s)])

DiscoveryOrder(e, k) ==
  LET walk == SelectSeq(PreOrder(<<e>>, {}), LAMBDA n : profile.specialization[n] = k)
  IN FirstOccurrences([i \in 1..Len(walk) |-> profile.name[walk[i]]])

----------------------------------------------------------------------------
(* Claims about findAllGroupings, findDomain and findFachbereich           *)

\* C1: when a containment cycle is reachable upward from the start element,
\* the call terminates, findAllGroupings returns hasCycle = TRUE and
\* findDomain / findFachbereich return "cycle".
C1_CycleTerminatesAndIsReported ==
  (CallStarted /\ CycleReachable(startElement))
    ~> (pc = "done" /\ ret.hasCycle /\ rendered = "cycle")

C1_Witness ==
  /\ pc = "done"
  /\ CycleReachable(startElement)
  /\ startElement \notin StrictAncestors(startElement)
  /\ rendered = "cycle"

C3_FoundIsExactlyTheQualifyingNames ==
  (pc = "return" /\ stack = <<>>) =>
     /\ SeqToSet(ret.found) = QualifyingNames(startElement, target)
     /\ NoDuplicates(ret.found)

C3_Witness ==
  /\ pc = "return" /\ stack = <<>>
  /\ ret.hasCycle
  /\ Len(ret.found) = 2
  /\ profile.specialization[startElement] = target
  /\ \E n \in ReachableFrom(startElement) :
        Cardinality(Children(n) \cap ReachableFrom(startElement)) >= 2

\* C4 (as claimed): several qualifying ancestors are listed in ascending
\* lexical order joined by ", ", whatever the order of traversal.
C4_RenderedInLexicalOrder ==
  (/\ pc = "done"
   /\ ~ret.hasCycle
   /\ profile.specialization[startElement] # target
   /\ Cardinality(QualifyingNames(startElement, target)) >= 2) =>
     rendered = Join(SortedNames(QualifyingNames(startElement, target)), ", ")

\* C4 (amended): several qualifying ancestors are listed, each once, joined
\* by ", " in the order the depth-first walk over the incoming relationships
\* first reaches them; the list is not sorted.
C4_RenderedInDiscoveryOrder ==
  (pc = "done" /\ ~ret.hasCycle) =>
     rendered = Join(DiscoveryOrder(startElement, target), ", ")

C4_Witness ==
  /\ pc = "done"
  /\ ~ret.hasCycle
  /\ profile.specialization[startElement] # target
  /\ Cardinality(Parents(startElement)) = 2
  /\ rendered = "Sales, Finance"

\* C5: a reported cycle makes findDomain / findFachbereich return exactly
\* "cycle" whatever names were collected; no cycle and no name gives the
\* empty string, which the application list shows as its placeholder; the
\* call ends by returning a value in every case.
C5_CycleSentinelAndPlaceholder ==
  /\ pc \in {"done", "listed"} =>
       /\ ret.hasCycle => rendered = "cycle"
       /\ (~ret.hasCycle /\ ret.found = <<>>) => rendered = ""
  /\ pc = "listed" =>
       /\ ret.hasCycle => catalogCell = "cycle"
       /\ (~ret.hasCycle /\ ret.found = <<>>) =>
             catalogCell = (IF target = "Domäne" THEN "(keine Domäne)"
                            ELSE "(kein Fachbereich)")

C5_Witness ==
  /\ pc = "listed"
  /\ ret.hasCycle
  /\ Len(ret.found) > 0
  /\ catalogCell = "cycle"

C5_WitnessPlaceholder ==
  /\ pc = "listed"
  /\ ~ret.hasCycle
  /\ catalogCell = "(kein Fachbereich)"

----------------------------------------------------------------------------
(* Notions the properties of a run are stated with                         *)

\* a table by value: every Set object replaced by its members
TableValue(table, h) ==
  [aElements |->
     [a \in DOMAIN table.aElements |->
        [domain  |-> table.aElements[a].domain,
         targets |-> [s \in DOMAIN table.aElements[a].schnittstellenMap |->
                        h[table.aElements[a].schnittstellenMap[s]]]]],
   bElementsMap    |-> table.bElementsMap,
   sortedAElements |-> table.sortedAElements,
   sortedBElements |-> table.sortedBElements]

\* the value buildComatrix returns for the relationships of a model
AsBuilt(relationships) ==
  LET built == buildComatrix(extractElements(relationships).relationships,
                             "fresh", EmptyMap)
  IN TableValue(built.table, built.heap)

\* the table buildComatrix makes of a model for the given owner
AsBuiltIn(relationships, owner, h) ==
  buildComatrix(extractElements(relationships).relationships, owner, h).table

BaseBuilt == AsBuilt(baselineModel)

CurrentBuilt == AsBuilt(model)

Rows(value) ==
  UNION {{<<a, s>> : s \in DOMAIN value.aElements[a].targets}
           : a \in DOMAIN value.aElements}

\* the target set of a row, a missing row counting as the empty set
TargetsOrEmpty(value, a, s) ==
  IF a \in DOMAIN value.aElements /\ s \in DOMAIN value.aElements[a].targets
  THEN value.aElements[a].targets[s]
  ELSE {}

InterfacesOrEmpty(value, a) ==
  IF a \in DOMAIN value.aElements THEN DOMAIN value.aElements[a].targets ELSE {}

Merged == TableValue(comatrix, heap)

AfterMerge == compareMode /\ runPc \in {"output", "exported"}

----------------------------------------------------------------------------
(* Claims about the compare-mode run                                        *)

\* C6: in a compare-mode run, a row of both tables whose current target set
\* has a B-element the baseline target set lacks is classified changed, the
\* cell of the added B-element new, and the cells of the B-elements of both
\* target sets unchanged.
C6_AddedTargetMarksRowChanged ==
  (compareMode /\ runPc = "exported") =>
     LET base == BaseBuilt
         cur  == CurrentBuilt
     IN \A combo \in Rows(base) \cap Rows(cur) :
           LET baseSet == TargetsOrEmpty(base, combo[1], combo[2])
               curSet  == TargetsOrEmpty(cur, combo[1], combo[2])
           IN (curSet \ baseSet # {}) =>
                 /\ report.rows[combo] = "changed"
                 /\ \A b \in curSet \ baseSet :
                       report.cells[<<combo[1], combo[2], b>>] = "new"
                 /\ \A b \in curSet \cap baseSet :
                       report.cells[<<combo[1], combo[2], b>>] = "unchanged"

C8_MergeIsUnion ==
  AfterMerge =>
     LET base == BaseBuilt
         cur  == CurrentBuilt
         mrg  == Merged
     IN /\ DOMAIN mrg.aElements = DOMAIN base.aElements \cup DOMAIN cur.aElements
        /\ \A a \in DOMAIN mrg.aElements :
              /\ DOMAIN mrg.aElements[a].targets
                   = InterfacesOrEmpty(base, a) \cup InterfacesOrEmpty(cur, a)
              /\ \A s \in DOMAIN mrg.aElements[a].targets :
                    mrg.aElements[a].targets[s]
                      = TargetsOrEmpty(base, a, s) \cup TargetsOrEmpty(cur, a, s)
        /\ DOMAIN mrg.bElementsMap = DOMAIN base.bElementsMap \cup DOMAIN cur.bElementsMap

C8_Witness ==
  /\ AfterMerge
  /\ \E combo \in Rows(BaseBuilt) \cap Rows(CurrentBuilt) :
        /\ TargetsOrEmpty(BaseBuilt, combo[1], combo[2])
             \ TargetsOrEmpty(CurrentBuilt, combo[1], combo[2]) # {}
        /\ TargetsOrEmpty(CurrentBuilt, combo[1], combo[2])
             \ TargetsOrEmpty(BaseBuilt, combo[1], combo[2]) # {}
  /\ Rows(CurrentBuilt) \ Rows(BaseBuilt) # {}

\* the domain the rule of C9 gives an element of both tables
RuleDomain(baseDomain, currentDomain) ==
  IF baseDomain # currentDomain \/ baseDomain = "" THEN currentDomain ELSE baseDomain

ExpectedDomain(baseMap, currentMap, name) ==
  IF name \in DOMAIN baseMap /\ name \in DOMAIN currentMap
  THEN RuleDomain(baseMap[name].domain, currentMap[name].domain)
  ELSE IF name \in DOMAIN baseMap THEN baseMap[name].domain
  ELSE currentMap[name].domain

\* C9: an A-element or B-element of both tables gets the current domain if
\* the two domains differ or the baseline domain is empty, and the baseline
\* domain otherwise; an element of one table gets that table's domain; the
\* rule is applied to A-elements and to B-elements separately.
C9_MergedDomainRule ==
  AfterMerge =>
     LET base == BaseBuilt
         cur  == CurrentBuilt
         mrg  == Merged
     IN /\ \A a \in DOMAIN mrg.aElements :
              mrg.aElements[a].domain = ExpectedDomain(base.aElements, cur.aElements, a)
        /\ \A b \in DOMAIN mrg.bElementsMap :
              mrg.bElementsMap[b].domain
                = ExpectedDomain(base.bElementsMap, cur.bElementsMap, b)

C9_Witness ==
  /\ AfterMerge
  /\ \E a \in DOMAIN BaseBuilt.aElements \cap DOMAIN CurrentBuilt.aElements :
        /\ BaseBuilt.aElements[a].domain # ""
        /\ CurrentBuilt.aElements[a].domain # ""
        /\ BaseBuilt.aElements[a].domain # CurrentBuilt.aElements[a].domain
  /\ \E b \in DOMAIN BaseBuilt.bElementsMap \cap DOMAIN CurrentBuilt.bElementsMap :
        BaseBuilt.bElementsMap[b].domain = CurrentBuilt.bElementsMap[b].domain

\* C10: a table merged with itself is structurally the table again: same
\* A-elements, interfaces, target sets and domains, and the same
\* sortedAElements / sortedBElements; both for two equal tables built in one
\* run and for one table object passed twice.
C10_MergeWithItself ==
  /\ (AfterMerge /\ BaseBuilt = CurrentBuilt) =>
        Merged = TableValue(comatrixCurrent, heap)
  /\ (runPc = "built" /\ compareMode) =>
        LET twice == merge(comatrixCurrent, comatrixCurrent, heap)
        IN TableValue(twice.table, twice.heap) = TableValue(comatrixCurrent, heap)

C10_Witness ==
  /\ AfterMerge
  /\ BaseBuilt = CurrentBuilt
  /\ Len(comatrix.sortedAElements) = 2
  /\ comatrix.sortedAElements[1] = "Order System"
  /\ comatrix.sortedAElements[2] = "Billing"

----------------------------------------------------------------------------
(* Claims about merge as a function of two tables                           *)

\* what two tables have in common when they hold the same elements and the
\* same connections: A-elements, B-elements, interfaces per A-element and
\* target set per row; domains and orders are left out
SameMembership(v, w) ==
  /\ DOMAIN v.aElements = DOMAIN w.aElements
  /\ DOMAIN v.bElementsMap = DOMAIN w.bElementsMap
  /\ \A a \in DOMAIN v.aElements :
        /\ DOMAIN v.aElements[a].targets = DOMAIN w.aElements[a].targets
        /\ \A s \in DOMAIN v.aElements[a].targets :
              v.aElements[a].targets[s] = w.aElements[a].targets[s]

\* merge(current, base) on the two tables of the run, built anew
SwappedMerge ==
  LET b  == buildComatrix(extractElements(baselineModel).relationships, "base", EmptyMap)
      c  == buildComatrix(extractElements(model).relationships, "current", b.heap)
      ba == merge(c.table, b.table, c.heap)
  IN TableValue(ba.table, ba.heap)

\* C11: merge(A, B) and merge(B, A) have the same A-elements, the same
\* B-elements, the same interfaces per A-element and the same target set for
\* every row; only domains and orders may differ. Stated for the two tables
\* of a run before the merge, and for the merged table of the run against the
\* merge of the same two tables in the other order.
C11_MergeCommutesOnMembership ==
  /\ (runPc = "built" /\ compareMode) =>
        LET ab == merge(comatrixBase, comatrixCurrent, heap)
            ba == merge(comatrixCurrent, comatrixBase, heap)
        IN SameMembership(TableValue(ab.table, ab.heap), TableValue(ba.table, ba.heap))
  /\ AfterMerge => SameMembership(Merged, SwappedMerge)

\* the two tables share a row with different targets, each has an interface
\* the other lacks, and the two merges disagree on a domain
C11_Witness ==
  /\ AfterMerge
  /\ \E combo \in Rows(BaseBuilt) \cap Rows(CurrentBuilt) :
        TargetsOrEmpty(BaseBuilt, combo[1], combo[2])
          # TargetsOrEmpty(CurrentBuilt, combo[1], combo[2])
  /\ \E a \in DOMAIN BaseBuilt.aElements \cap DOMAIN CurrentBuilt.aElements :
        InterfacesOrEmpty(BaseBuilt, a) # InterfacesOrEmpty(CurrentBuilt, a)
  /\ Merged.bElementsMap # SwappedMerge.bElementsMap

----------------------------------------------------------------------------
(* Claims about the rendered matrix                                         *)

\* C12: the internExtern of a rendered row is "intern" exactly when the row
\* has a connected B-element and every connected B-element has a non-empty
\* domain equal to the domain of the A-element, "extern" when a connected
\* B-element has a different or an empty domain, and empty only when the row
\* has no connection.
C12_InternMeansSameDomain ==
  (runPc = "exported") =>
     LET shown == Merged
     IN \A combo \in DOMAIN report.internExtern :
           LET aDomain == shown.aElements[combo[1]].domain
               targets == shown.aElements[combo[1]].targets[combo[2]]
               allSame == \A b \in targets :
                             /\ shown.bElementsMap[b].domain # ""
                             /\ shown.bElementsMap[b].domain = aDomain
           IN /\ report.internExtern[combo] = "intern" <=> (targets # {} /\ allSame)
              /\ (targets # {} /\ ~allSame) => report.internExtern[combo] = "extern"
              /\ report.internExtern[combo] = "" <=> targets = {}

----------------------------------------------------------------------------
(* Claims about extraction and the outcome of a run                         *)

\* a qualifying relationship for which the accessor hands back no interface
\* value: an empty array or nothing
ZeroValued(relationship) ==
  /\ qualifies(relationship)
  /\ Len(relationship.prop.values) = 0

\* C13: a qualifying relationship with zero interface values contributes
\* the row (target, "N/A") with its source connected to the table built from
\* the model, and extraction does not fail on it, whether the accessor hands
\* back an empty array or no value.
C13_ZeroValuesYieldNA ==
  /\ failure # "TypeError"
  /\ (~compareMode /\ runPc \in {"built", "exported", "noRelationships"}) =>
        \A i \in 1..Len(model) :
           ZeroValued(model[i]) =>
              hasConnection(comatrix, heap, model[i].target, "N/A", model[i].source)

----------------------------------------------------------------------------
(* Claims about the classification of a compare-mode run                    *)

Exported == compareMode /\ runPc = "exported"

\* membership of b in the target set of a row differs between two tables
MembershipDiffers(base, cur, combo, b) ==
  (b \in TargetsOrEmpty(base, combo[1], combo[2]))
    # (b \in TargetsOrEmpty(cur, combo[1], combo[2]))

\* C14: in a compare-mode run a B-element of both tables is classified
\* changed if and only if for some row of the base or of the current table
\* its membership in the row's target set differs between the two tables, a
\* missing row counting as not containing it.
C14_ColumnChangedIffMembershipDiffers ==
  Exported =>
     LET base == BaseBuilt
         cur  == CurrentBuilt
     IN \A b \in DOMAIN base.bElementsMap \cap DOMAIN cur.bElementsMap :
           report.columns[b] = "changed"
             <=> \E combo \in Rows(base) \cup Rows(cur) :
                    MembershipDiffers(base, cur, combo, b)

\* the connection of a cell is in a table as built
Connected(value, cell) == cell[3] \in TargetsOrEmpty(value, cell[1], cell[2])

\* C15: in a compare-mode run a connected cell of the merged table whose
\* connection is in the base table only is classified removed, one whose
\* connection is in the current table only is classified new, and one whose
\* connection is in both tables is classified neither new nor removed.
C15_CellNewRemovedByPresence ==
  Exported =>
     LET base == BaseBuilt
         cur  == CurrentBuilt
     IN \A cell \in DOMAIN report.cells :
           /\ (Connected(base, cell) /\ ~Connected(cur, cell))
                 => report.cells[cell] = "removed"
           /\ (Connected(cur, cell) /\ ~Connected(base, cell))
                 => report.cells[cell] = "new"
           /\ (Connected(base, cell) /\ Connected(cur, cell))
                 => report.cells[cell] \notin {"new", "removed"}

\* C16: a connected cell whose connection is in both tables and whose row or
\* whose B-element column is classified changed is itself classified changed.
C16_CellInheritsChanged ==
  Exported =>
     LET base == BaseBuilt
         cur  == CurrentBuilt
     IN \A cell \in DOMAIN report.cells :
           ( /\ Connected(base, cell)
             /\ Connected(cur, cell)
             /\ \/ report.rows[<<cell[1], cell[2]>>] = "changed"
                \/ report.columns[cell[3]] = "changed" )
             => report.cells[cell] = "changed"

\* a row or column of one table only is never shown as changed
ElementStatusWins ==
  LET base == BaseBuilt
      cur  == CurrentBuilt
  IN /\ \A combo \in DOMAIN report.rows :
           combo \notin Rows(base) \cap Rows(cur) => report.rows[combo] # "changed"
     /\ \A b \in DOMAIN report.columns :
           b \notin DOMAIN base.bElementsMap \cap DOMAIN cur.bElementsMap
             => report.columns[b] # "changed"

\* the cells of a new (removed) row are new (removed) also in a changed column
RowStatusWins ==
  \A cell \in DOMAIN report.cells :
     (report.columns[cell[3]] = "changed"
        /\ report.rows[<<cell[1], cell[2]>>] \in {"new", "removed"})
       => report.cells[cell] = report.rows[<<cell[1], cell[2]>>]

\* a cell whose connection is new (removed) is new (removed), whatever the
\* status of its row and column
ConnectionStatusWins ==
  LET base == BaseBuilt
      cur  == CurrentBuilt
  IN \A cell \in DOMAIN report.cells :
        /\ (Connected(cur, cell) /\ ~Connected(base, cell))
              => report.cells[cell] = "new"
        /\ (Connected(base, cell) /\ ~Connected(cur, cell))
              => report.cells[cell] = "removed"

\* C17: the classifier resolves competing tags by a fixed precedence: a row
\* that is new or removed is never shown as changed, a B-element column that
\* is new or removed is never shown as changed, a new or removed row wins over
\* a changed column in the cells of that row, and a cell whose own connection
\* is new or removed is shown as such whatever the changed status of its row
\* or column.
C17_FixedPrecedence ==
  Exported => (ElementStatusWins /\ RowStatusWins /\ ConnectionStatusWins)

----------------------------------------------------------------------------
(* Claims about the end of a run                                            *)

StartsWithNST(name) == Len(name) >= 4 /\ SubSeq(name, 1, 4) = "NST_"

\* the selected model has no relationship whose name starts with "NST_"
ZeroQualifying == \A i \in 1..Len(model) : ~StartsWithNST(model[i].name)

\* C18: a run on a model without qualifying relationships builds an empty
\* table, calls neither merge nor the report writer, throws nothing of its
\* own and goes from the built table to the "no relationships found" end, in
\* single-model and in compare mode, whatever the baseline holds; and in
\* every run the report writer is called at most once and only with a table
\* of at least one relationship.
C18_NoRelationshipsNoReport ==
  /\ (runPc # "idle" /\ ZeroQualifying) =>
        /\ writerCalls = 0
        /\ runPc \notin {"output", "exported"}
        /\ failure \in {"none", "AccessorFailure"}
        /\ comatrix = EmptyTable
        /\ comatrixCurrent = EmptyTable
        /\ runPc = "built" => (ENABLED NoRelationships /\ ~ENABLED MergeTables)
  /\ writerCalls <= 1
  /\ writerCalls > 0 => Len(comatrix.relationships) > 0

\* a compare-mode run that ended with "no relationships found" although the
\* baseline has relationships and the model has relationships of other names
C18_Witness ==
  /\ runPc = "noRelationships"
  /\ compareMode
  /\ ZeroQualifying
  /\ Len(model) > 0
  /\ Len(comatrixBase.relationships) > 0
  /\ writerCalls = 0

\* C19 as claimed: a failure of the graph accessor or of the report writer
\* during a run is propagated to the caller of the run with its cause; the
\* run does not swallow it and return normally.
C19_CollaboratorFailurePropagates ==
  failure \in {"AccessorFailure", "WriterFailure"} => runPc = "thrown"

\* C19: a failure raised inside the try block of the run (the graph accessor
\* while a table is built, the report writer while the file is written) is
\* caught by the run, which keeps its cause for the log, writes no report and
\* returns normally; only a failure of the extraction the run performs before
\* the try block leaves the run; after either the run does nothing more.
C19_FailureCaughtInsideTry ==
  [][ /\ (failure = "none" /\ failure' # "none") =>
           /\ runPc' = IF runPc = "extract" THEN "thrown" ELSE "caught"
           /\ report' = report
      /\ (failure = "none" /\ runPc' \in {"thrown", "caught"}) => failure' # "none"
      /\ runPc \in {"thrown", "caught"} => (runPc' = "idle" /\ failure' = "none")
    ]_vars

\* the report writer failed on a merged table and the run caught it
C19_Witness ==
  /\ runPc = "caught"
  /\ failure = "WriterFailure"
  /\ compareMode
  /\ writerCalls = 1
  /\ report = NoReport

----------------------------------------------------------------------------
(* Claims about the application catalog                                     *)

\* every entry runAppList can push
Entries ==
  {applicationEntry(name, spec, domain, fachbereich) :
     name \in ComponentNames,
     spec \in ComponentSpecializations \cap allowedSpecializations,
     domain \in FoundDomains, fachbereich \in FoundFachbereiche}

Sign(n) == IF n < 0 THEN -1 ELSE IF n > 0 THEN 1 ELSE 0

\* the comparator orders the entries consistently: comparing the other way
\* round gives the opposite sign, an entry equals itself, and "not after" is
\* transitive
ConsistentComparator ==
  /\ \A a, b \in Entries :
        Sign(compareApplications(a, b)) = -Sign(compareApplications(b, a))
  /\ \A a, b, c \in Entries :
        (compareApplications(a, b) <= 0 /\ compareApplications(b, c) <= 0)
          => compareApplications(a, c) <= 0

\* the order of the claim within one business-area: by domain with the
\* "none found" domain last, then by type, then by name
NotAfterWithinFachbereich(a, b) ==
  LET noneA == IF a.domain = "(keine Domäne)" THEN 1 ELSE 0
      noneB == IF b.domain = "(keine Domäne)" THEN 1 ELSE 0
  IN IF noneA # noneB THEN noneA < noneB
     ELSE IF a.domain # b.domain THEN localeCompare(a.domain, b.domain) < 0
     ELSE IF a.typ # b.typ THEN localeCompare(a.typ, b.typ) < 0
     ELSE localeCompare(a.name, b.name) <= 0

\* C20: in the sorted application catalog every entry without a
\* business-area comes after every entry with one, whatever its domain, type
\* and name; entries of one business-area are ordered by domain with the
\* "none found" domain last, then by type, then by name, ascending; and the
\* comparator is a consistent total preorder.
C20_CatalogSortOrder ==
  /\ (listPc = "sorted") =>
        \A i, j \in 1..Len(applications) :
           i < j =>
              /\ ~( /\ applications[i].fachbereich = "(kein Fachbereich)"
                    /\ applications[j].fachbereich # "(kein Fachbereich)" )
              /\ applications[i].fachbereich = applications[j].fachbereich
                    => NotAfterWithinFachbereich(applications[i], applications[j])
  /\ ConsistentComparator

\* an entry without business-area stands last although its domain, type and
\* name are all smaller than those of the entry before it
C20_Witness ==
  /\ listPc = "sorted"
  /\ Len(applications) = 2
  /\ applications[1].fachbereich = "Vertrieb"
  /\ applications[1].domain = "(keine Domäne)"
  /\ applications[1].typ = "Register"
  /\ applications[1].name = "Order System"
  /\ applications[2].fachbereich = "(kein Fachbereich)"
  /\ applications[2].domain = "cycle"
  /\ applications[2].typ = "Geschäftsanwendung"
  /\ applications[2].name = "Billing"

\* the two sentinels a catalog cell can hold instead of real names
IsSentinel(value) == value \in {"(kein Fachbereich)", "(keine Domäne)", "cycle"}

\* C21 as claimed: in the sorted catalog both sentinels, the "none found"
\* placeholder and "cycle", stand after all real business-area values and,
\* within one business-area, after all real domain values.
C21_SentinelsAfterRealValues ==
  (listPc = "sorted") =>
     \A i, j \in 1..Len(applications) :
        i < j =>
           /\ ~( /\ IsSentinel(applications[i].fachbereich)
                 /\ ~IsSentinel(applications[j].fachbereich) )
           /\ applications[i].fachbereich = applications[j].fachbereich
                 => ~( /\ IsSentinel(applications[i].domain)
                       /\ ~IsSentinel(applications[j].domain) )

\* C21: only the "none found" placeholder has a fixed position, the last;
\* "cycle" is compared like a name: the business-areas other than the
\* placeholder stand in localeCompare order, "cycle" among them, and so do
\* the domains other than the placeholder within one business-area.
C21_OnlyPlaceholderLast ==
  (listPc = "sorted") =>
     \A i, j \in 1..Len(applications) :
        i < j =>
           LET a == applications[i]
               b == applications[j]
           IN /\ b.fachbereich # "(kein Fachbereich)"
                   => /\ a.fachbereich # "(kein Fachbereich)"
                      /\ localeCompare(a.fachbereich, b.fachbereich) <= 0
              /\ (a.fachbereich = b.fachbereich /\ b.domain # "(keine Domäne)")
                   => /\ a.domain # "(keine Domäne)"
                      /\ localeCompare(a.domain, b.domain) <= 0

\* "cycle" stands before a real business-area, and within one business-area
\* before a real domain
C21_Witness ==
  /\ listPc = "sorted"
  /\ Len(applications) = 2
  /\ \/ /\ applications[1].fachbereich = "cycle"
        /\ applications[2].fachbereich = "Vertrieb"
     \/ /\ applications[1].fachbereich = applications[2].fachbereich
        /\ applications[1].domain = "cycle"
        /\ applications[2].domain = "Sales"

----------------------------------------------------------------------------
(* Claims about the table built from a model                                *)

ANames == {"Order System", "Billing"}

BNames == {"Portal", "MobileApp"}

InterfaceNames == {"REST", "SOAP", "", "N/A"}

\* the tables a run has built from a model and not yet merged, each with the
\* model it was built from
BuiltFromModel ==
  IF runPc = "built" /\ ~compareMode THEN {<<comatrix, model>>}
  ELSE IF runPc = "built" /\ compareMode
  THEN {<<comatrixBase, baselineModel>>, <<comatrixCurrent, model>>}
  ELSE {}

\* a relationship of the model named NST_... from b to a carries value
Carries(relationships, a, value, b) ==
  \E k \in 1..Len(relationships) :
     /\ StartsWithNST(relationships[k].name)
     /\ relationships[k].target = a
     /\ relationships[k].source = b
     /\ \E n \in 1..Len(relationships[k].prop.values) :
           relationships[k].prop.values[n] = value

\* C22 as claimed: the built table has the connection (A, i, B) if and only
\* if the model has a relationship whose name starts with "NST_", with
\* target A and source B, that carries the interface value i.
C22_ConnectionIffRelationshipCarriesValue ==
  \A pair \in BuiltFromModel :
     \A a \in ANames, i \in InterfaceNames, b \in BNames :
        hasConnection(pair[1], heap, a, i, b) <=> Carries(pair[2], a, i, b)

\* the row an interface value is shown under
ShownAs(value) == IF value = "" THEN "N/A" ELSE value

\* C22: the built table has the connection (A, i, B) if and only if the
\* model has a relationship whose name starts with "NST_", with target A and
\* source B, that carries an interface value shown as i, the empty value
\* being shown as "N/A"; relationships of other names contribute nothing,
\* each value of a relationship has its row, and relationships of one target
\* and interface share a row.
C22_ConnectionIffRelationshipShownAs ==
  \A pair \in BuiltFromModel :
     \A a \in ANames, i \in InterfaceNames, b \in BNames :
        hasConnection(pair[1], heap, a, i, b)
          <=> \E value \in InterfaceNames :
                 ShownAs(value) = i /\ Carries(pair[2], a, value, b)

\* a table built from a relationship with two values and one of another name
C22_Witness ==
  /\ runPc = "built"
  /\ ~compareMode
  /\ hasConnection(comatrix, heap, "Billing", "REST", "Portal")
  /\ hasConnection(comatrix, heap, "Billing", "SOAP", "Portal")
  /\ \E k \in 1..Len(model) : ~StartsWithNST(model[k].name)
  /\ Len(comatrix.relationships) = 2

\* the relationship contributes rows: its name starts with "NST_" and its
\* property has at least one value
Contributes(relationship) ==
  StartsWithNST(relationship.name) /\ Len(relationship.prop.values) >= 1

\* k is the first contributing relationship of the model with this end name
FirstWith(relationships, end, name, k) ==
  /\ Contributes(relationships[k])
  /\ relationships[k][end] = name
  /\ \A j \in 1..(k - 1) :
        ~(Contributes(relationships[j]) /\ relationships[j][end] = name)

\* C23: within one built table the domain recorded for an A-element name is
\* the target domain of the first relationship with that target name, and
\* the domain recorded for a B-element name is the source domain of the
\* first relationship with that source name; later relationships with the
\* same name do not change it.
C23_FirstSeenDomainWins ==
  \A pair \in BuiltFromModel :
     /\ \A a \in DOMAIN pair[1].aElements :
           \E k \in 1..Len(pair[2]) :
              /\ FirstWith(pair[2], "target", a, k)
              /\ pair[1].aElements[a].domain = pair[2][k].targetDomain
     /\ \A b \in DOMAIN pair[1].bElementsMap :
           \E k \in 1..Len(pair[2]) :
              /\ FirstWith(pair[2], "source", b, k)
              /\ pair[1].bElementsMap[b].domain = pair[2][k].sourceDomain

\* a table built from two relationships that give one target name two
\* domains and one source name two domains
C23_Witness ==
  /\ runPc = "built"
  /\ ~compareMode
  /\ Len(model) = 2
  /\ Contributes(model[1]) /\ Contributes(model[2])
  /\ model[1].target = model[2].target
  /\ model[1].targetDomain # model[2].targetDomain
  /\ model[1].source = model[2].source
  /\ model[1].sourceDomain # model[2].sourceDomain

\* sorted lists the keys of elementsMap once each, by domain ascending with
\* the empty domain last, then by name ascending
OrderedByDomain(elementsMap, sorted) ==
  /\ Len(sorted) = Cardinality(DOMAIN elementsMap)
  /\ SeqToSet(sorted) = DOMAIN elementsMap
  /\ \A i, j \in 1..Len(sorted) :
        i < j =>
          LET d1 == elementsMap[sorted[i]].domain
              d2 == elementsMap[sorted[j]].domain
          IN /\ ~(d1 = "" /\ d2 # "")
             /\ (d1 # "" /\ d2 # "") => localeCompare(d1, d2) <= 0
             /\ (d1 = d2) => localeCompare(sorted[i], sorted[j]) < 0

\* the interfaces of one A-element are written in ascending order
InterfacesAscending(rows) ==
  \A i, j \in 1..Len(rows) :
     (i < j /\ rows[i][1] = rows[j][1]) => CodeUnitRank(rows[i][2]) < CodeUnitRank(rows[j][2])

\* C24: after buildComatrix and after merge, sortedAElements and
\* sortedBElements are permutations of the keys of aElements and
\* bElementsMap, ordered by the table's own domains ascending with every
\* empty domain after every non-empty one and ties broken by name; the
\* interfaces of one A-element are written in ascending order.
C24_SortedByDomainThenName ==
  /\ \A table \in {comatrixBase, comatrixCurrent, comatrix} :
        /\ OrderedByDomain(table.aElements, table.sortedAElements)
        /\ OrderedByDomain(table.bElementsMap, table.sortedBElements)
  /\ InterfacesAscending(report.dataRows)
  /\ (report # NoReport) => SeqToSet(report.dataRows) = rowCombinations(comatrix)

\* a written report of a merged table whose A-elements and B-elements each
\* have an empty and a non-empty domain, with an A-element of two interfaces
C24_Witness ==
  /\ report # NoReport
  /\ compareMode
  /\ \E a1, a2 \in DOMAIN comatrix.aElements :
        comatrix.aElements[a1].domain = "" /\ comatrix.aElements[a2].domain # ""
  /\ \E b1, b2 \in DOMAIN comatrix.bElementsMap :
        comatrix.bElementsMap[b1].domain = "" /\ comatrix.bElementsMap[b2].domain # ""
  /\ \E a \in DOMAIN comatrix.aElements :
        Cardinality(DOMAIN comatrix.aElements[a].schnittstellenMap) >= 2

----------------------------------------------------------------------------
(* Claims about the mode of a run                                           *)

\* the property has a value with a character that is not a space
NonBlank(property) ==
  /\ property.kind = "string"
  /\ \E i \in 1..Len(property.value) : SubSeq(property.value, i, i) # " "

\* the mode the run is claimed to take for what the host hands over
ClaimedCompare(property, loaded) ==
  NonBlank(property) /\ property.value \in loaded

\* no row, cell or column of the report is tagged
NothingTagged ==
  /\ \A combo \in DOMAIN report.rows : report.rows[combo] = "unchanged"
  /\ \A cell \in DOMAIN report.cells : report.cells[cell] = "unchanged"
  /\ \A bName \in DOMAIN report.columns : report.columns[bName] = "unchanged"

\* the steps of a run in compare mode and in single-model mode
ModeSteps ==
  /\ (runPc = "build" /\ runPc' = "buildCurrent")
       => (compareMode /\ comatrixBase' = AsBuiltIn(baselineModel, "base", heap)
                       /\ comatrixCurrent' = EmptyTable)
  /\ (runPc = "buildCurrent" /\ runPc' = "built")
       => (compareMode /\ comatrixCurrent'
                            = AsBuiltIn(model, "current", heap))
  /\ (runPc' = "output")
       => (compareMode /\ runPc = "built"
             /\ comatrix' = merge(comatrixBase, comatrixCurrent, heap).table)
  /\ (runPc' = "exported" /\ runPc # "exported")
       => IF compareMode
          THEN report' = output2Excel(comatrix, TRUE, comatrixBase,
                                      comatrixCurrent, heap)
          ELSE /\ comatrixBase = EmptyTable
               /\ comatrixCurrent = EmptyTable
               /\ report' = output2Excel(comatrix, FALSE, EmptyTable,
                                          EmptyTable, heap)
               /\ NothingTagged'

\* C25: a run is in compare mode (it builds the baseline table, then the
\* current table, merges them and hands both to the report writer) if and
\* only if the property "baseline" of the selected model is not blank and a
\* loaded model has exactly that name; otherwise it is in single-model
\* mode, the writer gets no baseline and current table and nothing is
\* tagged new, removed or changed.
C25_CompareModeIffBaselineLoaded ==
  [][ /\ \A property \in BaselineProperties, loaded \in LoadedModelNames :
           StartRun(property, loaded)
             => (compareMode' <=> ClaimedCompare(property, loaded))
      /\ ModeSteps ]_vars

\* a single-model run has written its report although a baseline model
\* with relationships exists, and a compare run has written a report with
\* a tag
C25_Witness ==
  /\ runPc = "exported"
  /\ \/ ~compareMode /\ baselineModel # <<>> /\ Len(model) = 2
     \/ compareMode /\ ~NothingTagged

----------------------------------------------------------------------------
(* Claims about the Domain resolutions of one extraction                    *)

\* how often findDomain was called with the node
TimesResolved(node) ==
  Cardinality({i \in 1..Len(domainCalls) : domainCalls[i] = node})

Nodes == {Node(name, domain) : name \in ANames \cup BNames,
                              domain \in {"", "Sales", "Finance"}}

\* the model the latest extraction has gone through to its end
Extracted ==
  IF runPc \in {"build", "built"} THEN {model}
  ELSE IF runPc = "buildCurrent" THEN {baselineModel}
  ELSE {}

\* the ends of qualifying relationships the node is
EndsOf(relationships, node) ==
  Cardinality({k \in 1..Len(relationships) :
                 /\ StartsWithNST(relationships[k].name)
                 /\ node = Node(relationships[k].source, relationships[k].sourceDomain)})
  + Cardinality({k \in 1..Len(relationships) :
                 /\ StartsWithNST(relationships[k].name)
                 /\ node = Node(relationships[k].target, relationships[k].targetDomain)})

\* C26 as claimed: within one extraction over a model, the Domain of a node
\* is resolved at most once, even when the node is an end of several
\* qualifying relationships.
C26_ResolvedAtMostOncePerNode ==
  \A node \in Nodes : TimesResolved(node) <= 1

\* C26: within one extraction over a model, the Domain of a node is
\* resolved once for every end of a qualifying relationship the node is,
\* nothing being reused inside the call; every extraction resolves anew,
\* nothing being cached across calls.
C26_ResolvedOncePerRelationshipEnd ==
  \A relationships \in Extracted :
     \A node \in Nodes : TimesResolved(node) = EndsOf(relationships, node)

\* the second extraction of a run, over a model with a node that is the
\* source of two qualifying relationships
C26_Witness ==
  /\ runPc = "built"
  /\ ~compareMode
  /\ \E node \in Nodes : TimesResolved(node) = 2

----------------------------------------------------------------------------
(* Claims about the sets of one traversal                                   *)

\* the elements of the active findAllGroupings calls
ActiveElements == {stack[i].element : i \in 1..Len(stack)}

PathDiscipline ==
  /\ currentPath \subseteq visited
  /\ currentPath = ActiveElements
  /\ \A i, j \in 1..Len(stack) : stack[i].element = stack[j].element => i = j
  /\ (pc = "return" /\ stack = <<>>) => currentPath = {}

PathStep ==
  /\ pc \in {"call", "loop", "return"} => visited \subseteq visited'
  /\ Len(stack') > Len(stack)
       => /\ stack'[Len(stack')].element \notin currentPath
          /\ currentPath' = currentPath \cup {stack'[Len(stack')].element}
  /\ Len(stack') < Len(stack)
       => /\ pc' = "return"
          /\ currentPath' = currentPath \ {stack[Len(stack)].element}

\* C27: during a traversal currentPath is a subset of visited and holds
\* exactly the elements of the active calls; a call that added its element
\* to currentPath removes it when it returns, also when a cycle was reported
\* below it; nothing is removed from visited; when the top-level call has
\* returned, currentPath is empty.
C27_CurrentPathIsTheActiveStack == [](PathDiscipline) /\ [][PathStep]_vars

\* the top-level call has returned from a traversal of several elements
\* that reported a cycle
C27_Witness ==
  /\ pc = "return"
  /\ stack = <<>>
  /\ ret.hasCycle
  /\ Cardinality(visited) >= 2
  /\ currentPath = {}

----------------------------------------------------------------------------
(* Claims about the shape of the tables                                     *)

\* every target of the table is a B-element of it, every B-element is a
\* target, every A-element has an interface and every target set a member
ReferentiallyClosed(table, h) ==
  /\ \A combo \in rowCombinations(table) :
        /\ targetSet(table, h, combo[1], combo[2]) # {}
        /\ targetSet(table, h, combo[1], combo[2]) \subseteq DOMAIN table.bElementsMap
  /\ \A bName \in DOMAIN table.bElementsMap :
        \E combo \in rowCombinations(table) :
           bName \in targetSet(table, h, combo[1], combo[2])
  /\ \A a \in DOMAIN table.aElements :
        DOMAIN table.aElements[a].schnittstellenMap # {}

\* the tables that were returned by the step just taken
Returned ==
  IF runPc = "buildCurrent" THEN {comatrixBase}
  ELSE IF runPc = "built" THEN (IF compareMode THEN {comatrixCurrent} ELSE {comatrix})
  ELSE IF runPc = "output" THEN {comatrix}
  ELSE {}

\* C28: a table returned by buildComatrix, and a table returned by merge on
\* two such tables, is referentially closed: the names in its target sets
\* are keys of bElementsMap, every key of bElementsMap is in a target set,
\* every A-element has an interface and no target set is empty.
C28_TablesReferentiallyClosed ==
  \A table \in Returned : ReferentiallyClosed(table, heap)

\* a merged table with a B-element only the baseline has and one only the
\* current model has
C28_Witness ==
  /\ runPc = "output"
  /\ DOMAIN comatrixBase.bElementsMap \ DOMAIN comatrixCurrent.bElementsMap # {}
  /\ DOMAIN comatrixCurrent.bElementsMap \ DOMAIN comatrixBase.bElementsMap # {}
  /\ Cardinality(rowCombinations(comatrix)) >= 2

----------------------------------------------------------------------------
(* Claims about the findDomain of comatrix-bundled.js                       *)

\* C29: the findDomain of comatrix-bundled.js ends on every finite
\* containment graph, also on one with a cycle of two or more elements none
\* of which has a domain: no element is in two active calls, so the
\* recursion is never deeper than the number of elements and never uses up
\* the call stack.
C29_LegacyRecursionBounded ==
  /\ \A i, j \in 1..Len(legacyStack) :
        legacyStack[i].element = legacyStack[j].element => i = j
  /\ Len(legacyStack) <= Cardinality(Elements)
  /\ legacyPc # "overflow"

----------------------------------------------------------------------------
(* Claims about the statuses of the merged rows and columns                 *)

\* the status goes with the presence in the two tables
StatusByPresence(status, inBase, inCurrent) ==
  /\ inBase \/ inCurrent
  /\ status \in {"new", "removed", "changed", "unchanged"}
  /\ status = "new" <=> (inCurrent /\ ~inBase)
  /\ status = "removed" <=> (inBase /\ ~inCurrent)
  /\ status \in {"changed", "unchanged"} <=> (inBase /\ inCurrent)

\* C30: in a compare-mode run every row of the merged table is a row of the
\* base or of the current table and has exactly one status: new when it is
\* in the current table only, removed when it is in the base table only,
\* changed or unchanged when it is in both; likewise every column.
C30_OneStatusByPresence ==
  Exported =>
    /\ DOMAIN report.rows = Rows(Merged)
    /\ \A combo \in DOMAIN report.rows :
          StatusByPresence(report.rows[combo], combo \in Rows(BaseBuilt),
                           combo \in Rows(CurrentBuilt))
    /\ DOMAIN report.columns = DOMAIN comatrix.bElementsMap
    /\ \A bName \in DOMAIN report.columns :
          StatusByPresence(report.columns[bName],
                           bName \in DOMAIN BaseBuilt.bElementsMap,
                           bName \in DOMAIN CurrentBuilt.bElementsMap)

\* a report with a new row, a removed row and a row of both tables, a new
\* column and a removed column
C30_Witness ==
  /\ Exported
  /\ \E r1, r2, r3 \in DOMAIN report.rows :
        /\ report.rows[r1] = "new"
        /\ report.rows[r2] = "removed"
        /\ report.rows[r3] \in {"changed", "unchanged"}
  /\ \E b1, b2 \in DOMAIN report.columns :
        report.columns[b1] = "new" /\ report.columns[b2] = "removed"

====
